---- MODULE Spec2Model ----
(***************************************************************************)
(* A model of yts, a YouTube search client that scrapes the results page.  *)
(*                                                                         *)
(*   client.py      YouTubeSearchClient: one HTTP fetch per search, then    *)
(*                  the structured (embedded JSON) extractor and, when it   *)
(*                  finds nothing, the fallback (HTML tag) extractor.       *)
(*   cli.py         main (parse_args and the dispatch on the command) and  *)
(*                  the command handlers that call the client and then     *)
(*                  look the renderer up.                                   *)
(*   formatters.py  get_formatter, the renderer registry, and the           *)
(*                  formatters.                                             *)
(*                                                                         *)
(* Data representation.  A page is a record with the embedded JSON        *)
(* document and the list of HTML containers the selectors match.  JSON    *)
(* nodes carry the Python type json.loads gives them ("dict", "list",     *)
(* "str", "num", "bool", "null"), because the code's behaviour on a node  *)
(* depends on that type.  A result record is [kind, title, url]; title    *)
(* holds the name of a channel, and url is the pair <<base, id>> whose    *)
(* concatenation is the URL string the code builds (the base is empty for *)
(* the url urljoin gives a channel container).                            *)
(***************************************************************************)
EXTENDS Integers, Sequences, FiniteSets, TLC

VARIABLES
    call,         \* per search call: the locals of _async_search and its position
    session,      \* per client object: self.session (0 is None)
    closed,       \* the ClientSession objects that have been closed
    max_results,  \* per client object: self.max_results, set by __init__
    nextSession,  \* the identity the next ClientSession object gets
    cli,          \* the command-line run: parsed arguments and position
    wrap,         \* a search_videos / search_channels / search_playlists call
    calc          \* one application of a helper: its argument and its result

vars == <<call, session, max_results, closed, nextSession, cli, wrap, calc>>

(***************************************************************************)
(* Bounds of the model.                                                    *)
(***************************************************************************)
MaxItems == 2        \* items of an itemSectionRenderer
MaxSections == 2     \* sections of the sectionListRenderer
MaxContainers == 2   \* HTML containers of a page
MaxK == 1            \* largest max_results a caller asks for
MaxQueryLen == 2     \* characters of a query
MaxTextLen == 4      \* characters of a text given to a parser
MaxRuns == 3         \* runs of a text object
MaxThumbs == 2       \* entries of a list of thumbnails
MaxAnchors == 2      \* anchors of an HTML container

(***************************************************************************)
(* Program constants.                                                      *)
(***************************************************************************)
DefaultMaxResults == 20   \* YouTubeSearchClient.__init__(max_results=20)
StatusOK == 200           \* the only status _fetch_page accepts

CliMaxResults == 20       \* add_argument("--max-results", type=int, default=20)

None == 0                 \* Python's None for a session slot or a status

Min(a, b) == IF a <= b THEN a ELSE b

(***************************************************************************)
(* Texts.  A Python str that the code takes apart is a sequence of         *)
(* one-character strings, "" being <<>>; a fixed text the code only        *)
(* copies (a URL prefix, a filter token) is a TLA+ string.  An Optional    *)
(* value is a sequence too: <<>> is Python's None and <<x>> the value x.   *)
(***************************************************************************)
Nothing == <<>>
Some(x) == <<x>>

DigitChars == {"0", "1", "2", "3", "4", "5", "6", "7", "8", "9"}
DigitSeq == <<"0", "1", "2", "3", "4", "5", "6", "7", "8", "9">>
DigitVal(ch) == CHOOSE d \in 0..9 : DigitSeq[d + 1] = ch

LowerAlpha ==
    <<"a", "b", "c", "d", "e", "f", "g", "h", "i", "j", "k", "l", "m",
      "n", "o", "p", "q", "r", "s", "t", "u", "v", "w", "x", "y", "z">>
UpperAlpha ==
    <<"A", "B", "C", "D", "E", "F", "G", "H", "I", "J", "K", "L", "M",
      "N", "O", "P", "Q", "R", "S", "T", "U", "V", "W", "X", "Y", "Z">>

\* str.upper() and str.lower(), one character
UpperChar(ch) ==
    IF \E i \in 1..26 : LowerAlpha[i] = ch
    THEN UpperAlpha[CHOOSE i \in 1..26 : LowerAlpha[i] = ch]
    ELSE ch
LowerChar(ch) ==
    IF \E i \in 1..26 : UpperAlpha[i] = ch
    THEN LowerAlpha[CHOOSE i \in 1..26 : UpperAlpha[i] = ch]
    ELSE ch
Lower(s) == [i \in 1..Len(s) |-> LowerChar(s[i])]

\* The characters U+0001 to U+00FF in the order of their code points,
\* without the grave accent U+0060, which a string of a module cannot hold
\* (it is in no text of the model, and neither is U+0000).
CharTable ==
    <<"", "", "", "", "", "", "", "", "\t", "\n", "", "\f", "\r", "", "", "",
      "", "", "", "", "", "", "", "", "", "", "", "", "", "", "", " ",
      "!", "\"", "#", "$", "%", "&", "'", "(", ")", "*", "+", ",", "-", ".", "/", "0",
      "1", "2", "3", "4", "5", "6", "7", "8", "9", ":", ";", "<", "=", ">", "?", "@",
      "A", "B", "C", "D", "E", "F", "G", "H", "I", "J", "K", "L", "M", "N", "O", "P",
      "Q", "R", "S", "T", "U", "V", "W", "X", "Y", "Z", "[", "\\", "]", "^", "_", "a",
      "b", "c", "d", "e", "f", "g", "h", "i", "j", "k", "l", "m", "n", "o", "p", "q",
      "r", "s", "t", "u", "v", "w", "x", "y", "z", "{", "|", "}", "~", "", "", "",
      "", "", "", "", "", "", "", "", "", "", "", "", "", "", "", "",
      "", "", "", "", "", "", "", "", "", "", "", "", "", "", " ", "¡",
      "¢", "£", "¤", "¥", "¦", "§", "¨", "©", "ª", "«", "¬", "­", "®", "¯", "°", "±",
      "²", "³", "´", "µ", "¶", "·", "¸", "¹", "º", "»", "¼", "½", "¾", "¿", "À", "Á",
      "Â", "Ã", "Ä", "Å", "Æ", "Ç", "È", "É", "Ê", "Ë", "Ì", "Í", "Î", "Ï", "Ð", "Ñ",
      "Ò", "Ó", "Ô", "Õ", "Ö", "×", "Ø", "Ù", "Ú", "Û", "Ü", "Ý", "Þ", "ß", "à", "á",
      "â", "ã", "ä", "å", "æ", "ç", "è", "é", "ê", "ë", "ì", "í", "î", "ï", "ð", "ñ",
      "ò", "ó", "ô", "õ", "ö", "÷", "ø", "ù", "ú", "û", "ü", "ý", "þ", "ÿ">>

\* The code point at a place of the table.
CodeAt(i) == IF i < 96 THEN i ELSE i + 1
\* ord(ch)
Ord(ch) == CodeAt(CHOOSE i \in 1..Len(CharTable) : CharTable[i] = ch)

HexUpper ==
    <<"0", "1", "2", "3", "4", "5", "6", "7", "8", "9", "A", "B", "C", "D", "E", "F">>
HexLower ==
    <<"0", "1", "2", "3", "4", "5", "6", "7", "8", "9", "a", "b", "c", "d", "e", "f">>

Letters == {LowerAlpha[i] : i \in 1..26} \cup {UpperAlpha[i] : i \in 1..26}

\* str.find for a set of characters: the place of the first character of s
\* from the place at on that is in cs, and Len(s) + 1 when there is none.
IndexOf(s, cs, at) ==
    IF \A i \in at..Len(s) : s[i] \notin cs THEN Len(s) + 1
    ELSE CHOOSE i \in at..Len(s) : s[i] \in cs /\ \A j \in at..(i - 1) : s[j] \notin cs

IsDigits(s) == s # <<>> /\ \A i \in 1..Len(s) : s[i] \in DigitChars

RECURSIVE DigitsValue(_)
DigitsValue(s) ==
    IF s = <<>> THEN 0
    ELSE 10 * DigitsValue(SubSeq(s, 1, Len(s) - 1)) + DigitVal(s[Len(s)])

RECURSIVE Replace(_, _)
\* str.replace(pat, ''): the occurrences of pat, leftmost first, are removed
Replace(s, pat) ==
    IF Len(s) < Len(pat) THEN s
    ELSE IF SubSeq(s, 1, Len(pat)) = pat
    THEN Replace(SubSeq(s, Len(pat) + 1, Len(s)), pat)
    ELSE <<Head(s)>> \o Replace(Tail(s), pat)

RECURSIVE Split(_, _)
\* str.split(sep) for a one-character sep: always at least one part
Split(s, sep) ==
    IF \A i \in 1..Len(s) : s[i] # sep THEN <<s>>
    ELSE LET at == CHOOSE i \in 1..Len(s) :
                       s[i] = sep /\ \A j \in 1..(i - 1) : s[j] # sep
         IN  <<SubSeq(s, 1, at - 1)>> \o Split(SubSeq(s, at + 1, Len(s)), sep)

\* The characters str.strip() drops at both ends, those for which
\* str.isspace() holds: the ASCII ones (tab, line feed, vertical tab, form
\* feed, carriage return, the four separators 1C-1F, space), NEL and the
\* no-break space.  (The spaces above U+00FF, which str.strip() drops as
\* well, cannot be written in a module and are in no text of the model.)
Separators == {"", "", "", ""}
Whitespace ==
    {"\t", "\n", "", "\f", "\r", " ", "", " "}
        \cup Separators

\* The characters int() and float() drop at both ends: the separators
\* 1C-1F are not among them.
NumberSpace == Whitespace \ Separators

RECURSIVE LStrip(_)
LStrip(q) == IF q # <<>> /\ Head(q) \in Whitespace THEN LStrip(Tail(q)) ELSE q

RECURSIVE RStrip(_)
RStrip(q) ==
    IF q # <<>> /\ q[Len(q)] \in Whitespace THEN RStrip(SubSeq(q, 1, Len(q) - 1)) ELSE q

\* A check of the raw query, "if not query:".
StripNothing(q) == q

\* str.strip()
Strip(q) == RStrip(LStrip(q))

RECURSIVE Bare(_)
\* A numeric literal without the whitespace int() and float() drop.
Bare(s) ==
    IF s # <<>> /\ Head(s) \in NumberSpace THEN Bare(Tail(s))
    ELSE IF s # <<>> /\ s[Len(s)] \in NumberSpace
    THEN Bare(SubSeq(s, 1, Len(s) - 1))
    ELSE s

\* A numeric literal with its whitespace dropped: its sign and what follows.
Negative(t) == t # <<>> /\ Head(t) = "-"
Unsigned(t) == IF t # <<>> /\ Head(t) \in {"+", "-"} THEN Tail(t) ELSE t

\* The rule of int() and float() for underscores: each stands between two
\* digits.
Grouped(body) ==
    \A i \in 1..Len(body) :
        body[i] = "_" =>
            /\ i > 1 /\ body[i - 1] \in DigitChars
            /\ i < Len(body) /\ body[i + 1] \in DigitChars

IntOf(neg, body) ==
    IF ~Grouped(body) \/ ~IsDigits(Replace(body, <<"_">>)) THEN Nothing
    ELSE IF neg THEN Some(0 - DigitsValue(Replace(body, <<"_">>)))
    ELSE Some(DigitsValue(Replace(body, <<"_">>)))

IntLiteral(t) == IntOf(Negative(t), Unsigned(t))

\* int(s) for a str: surrounding whitespace, one optional sign, decimal
\* digits.  Nothing stands for ValueError.
ParseInt(s) == IntLiteral(Bare(s))

(***************************************************************************)
(* Python's float is the IEEE 754 binary64 format.  A natural number of    *)
(* any size is the sequence of its decimal digits, most significant first, *)
(* <<>> being 0; a float is [kind, neg, m, e] with kind "finite", "inf",   *)
(* "nan" or "ValueError", a finite one having the magnitude m * 2^e with   *)
(* m = <<>> (zero) or 2^52 <= m < 2^53.                                    *)
(***************************************************************************)
\* x without its leading zeros
Trim(x) ==
    IF \A i \in 1..Len(x) : x[i] = 0 THEN <<>>
    ELSE SubSeq(x, CHOOSE i \in 1..Len(x) :
                       x[i] # 0 /\ \A j \in 1..(i - 1) : x[j] = 0,
                Len(x))

Zeros(n) == [i \in 1..n |-> 0]

RECURSIVE BigValue(_)
BigValue(x) ==
    IF x = <<>> THEN 0 ELSE 10 * BigValue(SubSeq(x, 1, Len(x) - 1)) + x[Len(x)]

\* x < y below the i-th digit, for x and y of one length
LessBelow(x, y, i) ==
    \E k \in (i + 1)..Len(x) :
        x[k] < y[k] /\ \A j \in (i + 1)..(k - 1) : x[j] = y[j]
BigLess(x, y) == Len(x) < Len(y) \/ (Len(x) = Len(y) /\ LessBelow(x, y, 0))

\* 2 * x: a digit takes a carry when the next one is 5 or more
TwiceAt(x, i) == (2 * x[i] + (IF i < Len(x) /\ x[i + 1] >= 5 THEN 1 ELSE 0)) % 10
BigTwice(x) ==
    IF x # <<>> /\ x[1] >= 5 THEN <<1>> \o [i \in 1..Len(x) |-> TwiceAt(x, i)]
    ELSE [i \in 1..Len(x) |-> TwiceAt(x, i)]

\* x + 1: a digit takes the carry when every later one is 9
Nines(x, i) == \A j \in (i + 1)..Len(x) : x[j] = 9
BigInc(x) ==
    IF Nines(x, 0) THEN <<1>> \o Zeros(Len(x))
    ELSE [i \in 1..Len(x) |-> IF Nines(x, i) THEN (x[i] + 1) % 10 ELSE x[i]]

\* x - y for x >= y and y written with the digits of x: a digit lends
\* when x is below y in the later digits
Minus(x, y) ==
    Trim([i \in 1..Len(x) |->
              (x[i] - y[i] - (IF LessBelow(x, y, i) THEN 1 ELSE 0) + 10) % 10])
BigSub(x, y) == Minus(x, Zeros(Len(x) - Len(y)) \o y)

RECURSIVE BigTimes(_, _)
\* x * k for a power of ten k, which the multipliers of the table are
BigTimes(x, k) == IF k <= 1 THEN x ELSE BigTimes(x \o <<0>>, k \div 10)

RECURSIVE Pow2Times(_, _)
\* x * 2^n
Pow2Times(x, n) ==
    IF n = 0 \/ x = <<>> THEN x
    ELSE IF n % 2 = 0 THEN Pow2Times(Pow2Times(x, n \div 2), n \div 2)
    ELSE BigTwice(Pow2Times(x, n - 1))

RECURSIVE Fits(_, _, _)
\* how many times b is in rem, and what is left of rem
Fits(rem, b, n) ==
    IF BigLess(rem, b) THEN [q |-> n, r |-> rem]
    ELSE Fits(BigSub(rem, b), b, n + 1)

RECURSIVE DivFrom(_, _, _, _, _)
RECURSIVE DivStep(_, _, _, _, _)
\* Long division of a by b from the i-th digit of a on, q and rem being
\* the quotient and the remainder of the digits before it: [q, r].
DivFrom(a, b, i, q, rem) ==
    IF i > Len(a) THEN [q |-> Trim(q), r |-> rem]
    ELSE DivStep(a, b, i, q, Fits(Trim(Append(rem, a[i])), b, 0))
DivStep(a, b, i, q, s) == DivFrom(a, b, i + 1, Append(q, s.q), s.r)
\* The first digits of a, one fewer than b has, are below b.
BigDivMod(a, b) ==
    DivFrom(a, b, Min(Len(b), Len(a) + 1), <<>>,
            Trim(SubSeq(a, 1, Min(Len(b), Len(a) + 1) - 1)))

Two52 == <<4, 5, 0, 3, 5, 9, 9, 6, 2, 7, 3, 7, 0, 4, 9, 6>>
Two53 == BigTwice(Two52)

Odd(x) == x # <<>> /\ x[Len(x)] % 2 = 1

Float(kind, neg, m, e) == [kind |-> kind, neg |-> neg, m |-> m, e |-> e]
Zero(neg) == Float("finite", neg, <<>>, 0)

\* The quotient d of a division by b rounded to the nearest integer, a tie
\* to the even one, as the 53 bits of a float with exponent e.  Above the
\* largest float the result is an infinity.  (A number below 2^-1022 stands
\* as zero: its product with a multiplier is below 1, and int() gives 0.)
Nearest(d, b, e, neg) ==
    IF e < 0 - 1074 THEN Zero(neg)
    ELSE IF BigLess(b, BigTwice(d.r)) \/ (BigTwice(d.r) = b /\ Odd(d.q))
    THEN IF BigInc(d.q) = Two53
         THEN Float(IF e + 1 > 971 THEN "inf" ELSE "finite", neg, Two52, e + 1)
         ELSE Float(IF e > 971 THEN "inf" ELSE "finite", neg, BigInc(d.q), e)
    ELSE Float(IF e > 971 THEN "inf" ELSE "finite", neg, d.q, e)

RECURSIVE Round53(_, _, _, _, _)
\* The float nearest to a / b * 2^e for a > 0: low is b * 2^52, and a or b
\* is doubled until 2^52 <= a / b < 2^53.  A digit that a and low differ
\* in length allows three doublings at once, 8 being below 10.
Round53(a, b, low, e, neg) ==
    IF Len(low) - Len(a) >= 2
    THEN Round53(Pow2Times(a, 3 * (Len(low) - Len(a) - 1)), b, low,
                 e - 3 * (Len(low) - Len(a) - 1), neg)
    ELSE IF BigLess(a, low) THEN Round53(BigTwice(a), b, low, e - 1, neg)
    ELSE IF Len(a) - Len(low) >= 3
    THEN Round53(a, Pow2Times(b, 3 * (Len(a) - Len(low) - 2)),
                 Pow2Times(low, 3 * (Len(a) - Len(low) - 2)),
                 e + 3 * (Len(a) - Len(low) - 2), neg)
    ELSE IF ~BigLess(a, BigTwice(low))
    THEN Round53(a, BigTwice(b), BigTwice(low), e + 1, neg)
    ELSE Nearest(BigDivMod(a, b), b, e, neg)

\* The float nearest to n / d
Ratio(n, d, neg) ==
    IF n = <<>> THEN Zero(neg)
    ELSE Round53(n, d, Pow2Times(d, 52), 0, neg)

\* The digits of a literal as a number
Digits(s) == Trim([i \in 1..Len(s) |-> DigitVal(s[i])])

\* An exponent: its value, or 9999 when it has more than four digits.
Exponent(s) == IF Len(Digits(s)) > 4 THEN 9999 ELSE BigValue(Digits(s))

\* The float of the decimal digits * 10^shift.  Beyond 10^400 it is an
\* infinity and below 10^-400 zero.
Decimal(neg, digits, shift) ==
    IF digits = <<>> THEN Zero(neg)
    ELSE IF Len(digits) + shift > 400 THEN Float("inf", neg, <<>>, 0)
    ELSE IF Len(digits) + shift < 0 - 400 THEN Zero(neg)
    ELSE Ratio(digits \o Zeros(shift), <<1>> \o Zeros(0 - shift), neg)

AllDigits(x) == \A i \in 1..Len(x) : x[i] \in DigitChars

\* digits, optionally a point, digits: at least one digit in all; exp is
\* the value of the exponent part
Mantissa(neg, parts, exp) ==
    IF Len(parts) > 2 THEN Float("ValueError", FALSE, <<>>, 0)
    ELSE IF Len(parts) = 1
    THEN IF IsDigits(parts[1]) THEN Decimal(neg, Digits(parts[1]), exp)
         ELSE Float("ValueError", FALSE, <<>>, 0)
    ELSE IF AllDigits(parts[1]) /\ AllDigits(parts[2]) /\ parts[1] \o parts[2] # <<>>
    THEN Decimal(neg, Digits(parts[1] \o parts[2]), exp - Len(parts[2]))
    ELSE Float("ValueError", FALSE, <<>>, 0)

\* The place of the first 'e' or 'E' of a literal, 0 when it has none.
ExponentAt(body) ==
    IF \E i \in 1..Len(body) : body[i] \in {"e", "E"}
    THEN CHOOSE i \in 1..Len(body) :
             body[i] \in {"e", "E"} /\ \A j \in 1..(i - 1) : body[j] \notin {"e", "E"}
    ELSE 0

\* mant is what precedes the 'e', exp what follows it: a sign and digits
Scientific(neg, mant, exp) ==
    IF ~IsDigits(Unsigned(exp)) THEN Float("ValueError", FALSE, <<>>, 0)
    ELSE IF Negative(exp)
    THEN Mantissa(neg, Split(mant, "."), 0 - Exponent(Unsigned(exp)))
    ELSE Mantissa(neg, Split(mant, "."), Exponent(Unsigned(exp)))

\* body is a literal without its sign and underscores, at the place of
\* its 'e'
Number(neg, body, at) ==
    IF at = 0 THEN Mantissa(neg, Split(body, "."), 0)
    ELSE Scientific(neg, SubSeq(body, 1, at - 1), SubSeq(body, at + 1, Len(body)))

\* body is the literal without its sign
FloatOf(neg, body) ==
    IF Lower(body) \in {<<"i", "n", "f">>,
                        <<"i", "n", "f", "i", "n", "i", "t", "y">>}
    THEN Float("inf", neg, <<>>, 0)
    ELSE IF Lower(body) = <<"n", "a", "n">> THEN Float("nan", neg, <<>>, 0)
    ELSE IF ~Grouped(body) THEN Float("ValueError", FALSE, <<>>, 0)
    ELSE Number(neg, Replace(body, <<"_">>), ExponentAt(Replace(body, <<"_">>)))

FloatLiteral(t) == FloatOf(Negative(t), Unsigned(t))

\* float(s) for a str
ParseFloat(s) == FloatLiteral(Bare(s))

\* str.startswith(p) and "p in s"
StartsWith(s, p) == Len(s) >= Len(p) /\ SubSeq(s, 1, Len(p)) = p
Contains(s, p) == \E i \in 0..(Len(s) - Len(p)) : SubSeq(s, i + 1, i + Len(p)) = p

RECURSIVE Capture(_, _)
\* re.search(pat + '([^&]+)', s) and match.group(1), for a literal pat: the
\* leftmost place where pat is followed by a character other than '&', and
\* the characters from there up to the next '&' or the end.
Capture(s, pat) ==
    IF Len(s) <= Len(pat) THEN Nothing
    ELSE IF StartsWith(s, pat) /\ s[Len(pat) + 1] # "&"
    THEN Some(Split(SubSeq(s, Len(pat) + 1, Len(s)), "&")[1])
    ELSE Capture(Tail(s), pat)

(***************************************************************************)
(* The count and duration parsers.  Each gives [exc, val]: val is the      *)
(* Optional[int] returned, exc the exception that leaves the function.     *)
(***************************************************************************)
Ret(v) == [exc |-> "None", val |-> v]
Throw(exc) == [exc |-> exc, val |-> Nothing]

\* A table with one multiplier.
ThousandOnly(suffix) == 1000

\* multipliers = {'K': 1000, 'M': 1000000, 'B': 1000000000}
Multiplier(suffix) ==
    CASE suffix = "K" -> 1000
      [] suffix = "M" -> 1000000
      [] suffix = "B" -> 1000000000

\* number * multiplier for a finite float and an int: the int as a float,
\* exact for the three multipliers, and the product rounded to a float
Times(number, multiplier) ==
    IF number.m = <<>> THEN number
    ELSE IF number.e >= 0
    THEN Ratio(Pow2Times(BigTimes(number.m, multiplier), number.e), <<1>>,
               number.neg)
    ELSE Ratio(BigTimes(number.m, multiplier), Pow2Times(<<1>>, 0 - number.e),
               number.neg)

\* int(x) for a finite float: the fractional part is dropped, a half like
\* any other fraction
Truncated(x) ==
    IF x.m = <<>> \/ x.e < 0 - 53 THEN 0
    ELSE IF x.e >= 0 THEN BigValue(Pow2Times(x.m, x.e))
    ELSE BigValue(BigDivMod(x.m, Pow2Times(<<1>>, 0 - x.e)).q)

Signed(neg, magnitude) == IF neg THEN 0 - magnitude ELSE magnitude

\* "try: number = float(text[:-1]); return int(number * multiplier)
\*  except ValueError: pass" gives [exc, pass, val]: pass says that the try
\* block ended in ValueError.  int() of an infinity is an OverflowError, of
\* a NaN a ValueError.
Passed == [exc |-> "None", pass |-> TRUE, val |-> Nothing]

IntOfFloat(x) ==
    CASE x.kind = "finite" ->
             [exc |-> "None", pass |-> FALSE,
              val |-> Some(Signed(x.neg, Truncated(x)))]
      [] x.kind = "inf" ->
             [exc |-> "OverflowError", pass |-> FALSE, val |-> Nothing]
      [] OTHER -> Passed

Product(number, multiplier) ==
    IF number.kind = "finite" THEN IntOfFloat(Times(number, multiplier))
    ELSE IntOfFloat(number)

Scaled(text, multiplier) ==
    Product(ParseFloat(SubSeq(text, 1, Len(text) - 1)), multiplier)

\* The loop over the suffixes: at most one of them ends the text.
SuffixLoop(text, last) ==
    IF last \in {"K", "M", "B"} THEN Scaled(text, Multiplier(last)) ELSE Passed

\* The statements after the loop: "try: return int(text)
\* except ValueError: return None", reached when the loop did not return.
AfterLoop(text, try) ==
    IF try.exc # "None" THEN Throw(try.exc)
    ELSE IF ~try.pass THEN Ret(try.val)
    ELSE Ret(ParseInt(text))

LastUpper(text) == IF text = <<>> THEN "" ELSE UpperChar(text[Len(text)])

\* The text after "Remove commas and normalize".
Normalized(text) == AfterLoop(text, SuffixLoop(text, LastUpper(text)))

Views == <<" ", "v", "i", "e", "w", "s">>
Subscribers == <<" ", "s", "u", "b", "s", "c", "r", "i", "b", "e", "r", "s">>

_parse_view_count(text) ==
    IF text = <<>> THEN Ret(Nothing)
    ELSE Normalized(Replace(Replace(Replace(text, <<",">>), Views), Subscribers))

RECURSIVE DigitRun(_)
\* the longest run of digits at the start of s
DigitRun(s) ==
    IF s # <<>> /\ Head(s) \in DigitChars THEN <<Head(s)>> \o DigitRun(Tail(s))
    ELSE <<>>

RECURSIVE FirstDigit(_)
\* The pattern without its '+': the first digit alone.
FirstDigit(s) ==
    IF s = <<>> THEN <<>>
    ELSE IF Head(s) \in DigitChars THEN <<Head(s)>>
    ELSE FirstDigit(Tail(s))

RECURSIVE FirstDigitRun(_)
\* re.search(r'(\d+)', text): the leftmost match, taken greedily
FirstDigitRun(s) ==
    IF s = <<>> THEN <<>>
    ELSE IF Head(s) \in DigitChars THEN DigitRun(s)
    ELSE FirstDigitRun(Tail(s))

\* "if match: return int(match.group(1))"
Matched(match) == IF match = <<>> THEN Ret(Nothing) ELSE Ret(ParseInt(match))

_parse_video_count(text) ==
    IF text = <<>> THEN Ret(Nothing) ELSE Matched(FirstDigitRun(text))

\* int(parts[i]) for every part: Nothing when int() rejects one of them,
\* which is the ValueError that "except (ValueError, IndexError)" catches.
Ints(parts) ==
    IF \E i \in 1..Len(parts) : ParseInt(parts[i]) = Nothing THEN Nothing
    ELSE Some([i \in 1..Len(parts) |-> ParseInt(parts[i])[1]])

\* MM:SS or HH:MM:SS from the parts as integers (Nothing: the ValueError
\* branch).
Clock(n, ints) ==
    IF ints = Nothing THEN Ret(Nothing)
    ELSE IF n = 2 THEN Ret(Some(ints[1][1] * 60 + ints[1][2]))
    ELSE Ret(Some(ints[1][1] * 3600 + ints[1][2] * 60 + ints[1][3]))

\* A try block that also reads a text without ':' as seconds.
SecondsToo(n, ints) ==
    IF n = 1 THEN Ret(IF ints = Nothing THEN Nothing ELSE Some(ints[1][1]))
    ELSE IF n \in {2, 3} THEN Clock(n, ints)
    ELSE Ret(Nothing)

\* "if len(parts) == 2: ... elif len(parts) == 3: ..." inside the try, and
\* the final "return None" that every other length falls through to.
Seconds(n, ints) ==
    IF n \in {2, 3} THEN Clock(n, ints) ELSE Ret(Nothing)

_parse_duration_to_seconds(duration_text) ==
    IF duration_text = <<>> THEN Ret(Nothing)
    ELSE Seconds(Len(Split(duration_text, ":")), Ints(Split(duration_text, ":")))

(***************************************************************************)
(* Small universes of values.                                              *)
(***************************************************************************)
Abc123 == <<"a", "b", "c", "1", "2", "3">>
Xyz789 == <<"x", "y", "z", "7", "8", "9">>
Ids == {<<>>, Abc123}
Intro == <<"I", "n", "t", "r", "o">>
Titles == {<<>>, Intro}
Markers == {"videoRenderer", "channelRenderer", "playlistRenderer"}
ResultTypes == {"video", "channel", "playlist", "all"}

WatchBase == "https://www.youtube.com/watch?v="
ChannelBase == "https://www.youtube.com/channel/"
PlaylistBase == "https://www.youtube.com/playlist?list="

\* VideoResult / ChannelResult / PlaylistResult (models.py) in one shape:
\* title holds the name of a channel and thumbnail_url its avatar_url, and a
\* field the record's class does not have stays Nothing.  This is the record
\* with the dataclass defaults (None) and an empty channel_title.
Record(kind, title, base, id) ==
    [kind |-> kind, title |-> title, url |-> <<base, id>>,
     channel_title |-> <<>>, description |-> Nothing,
     duration |-> Nothing, duration_seconds |-> Nothing,
     view_count |-> Nothing, subscriber_count |-> Nothing,
     video_count |-> Nothing, thumbnail_url |-> Nothing]

(***************************************************************************)
(* Text objects of the embedded JSON and _extract_text.                    *)
(*                                                                         *)
(* A JSON value in a text position is [type, text, keys, rtype, runs]:     *)
(* type is the Python type json.loads gives it; text is the str itself or  *)
(* the value under "simpleText"; keys says which of "simpleText" and       *)
(* "runs" a mapping has; rtype is the type of the value under "runs" and   *)
(* runs what iterating that value gives (the elements of a list, the keys  *)
(* of a mapping, the characters of a str), each [type, has, text, ttype]:  *)
(* the element's type, whether a mapping has "text", that text, and the    *)
(* type of the value under "text".                                         *)
(***************************************************************************)
TextObj(type, text, keys, rtype, runs) ==
    [type |-> type, text |-> text, keys |-> keys, rtype |-> rtype, runs |-> runs]
Str(s) == TextObj("str", s, {}, "list", <<>>)
SimpleText(s) == TextObj("dict", s, {"simpleText"}, "list", <<>>)
Runs(runs) == TextObj("dict", <<>>, {"runs"}, "list", runs)
Both(s, runs) == TextObj("dict", s, {"simpleText", "runs"}, "list", runs)
NoText(type) == TextObj(type, <<>>, {}, "list", <<>>)
\* the {} that video.get(key, {}) gives for an absent key
EmptyDict == NoText("dict")

Run(type, has, text) == [type |-> type, has |-> has, text |-> text, ttype |-> "str"]
TextRun(s) == Run("dict", TRUE, s)
BareRun == Run("dict", FALSE, <<>>)
\* a run whose "text" is no str, e.g. {"text": 5}
RunOf(ttype) == [type |-> "dict", has |-> TRUE, text |-> <<>>, ttype |-> ttype]
\* what iterating a mapping with n keys, or a str of n characters, gives
Strs(n) == [i \in 1..n |-> Run("str", FALSE, <<>>)]

\* One more run in front of a join.  The join takes the whole generator
\* first, so the AttributeError of a later run comes before the TypeError
\* the join raises for a text that is no str.
Joined(run, rest) ==
    IF rest.exc = "AttributeError" THEN rest
    ELSE IF run.has /\ run.ttype # "str" THEN Throw("TypeError")
    ELSE IF rest.exc # "None" THEN rest
    ELSE Ret((IF run.has THEN run.text ELSE <<>>) \o rest.val)

RECURSIVE JoinRuns(_, _)
\* "".join(run.get("text", "") for run in text_obj["runs"])
JoinRuns(runs, i) ==
    IF i > Len(runs) THEN Ret(<<>>)
    ELSE IF runs[i].type # "dict" THEN Throw("AttributeError")
    ELSE Joined(runs[i], JoinRuns(runs, i + 1))

\* A helper that subscripts "runs" without asking whether it is there.
StrictText(text_obj) ==
    IF text_obj.type = "str" THEN Ret(text_obj.text)
    ELSE IF text_obj.type # "dict" THEN Ret(<<>>)
    ELSE IF "simpleText" \in text_obj.keys THEN Ret(text_obj.text)
    ELSE IF "runs" \notin text_obj.keys THEN Throw("KeyError")
    ELSE IF text_obj.rtype \in {"num", "bool", "null"} THEN Throw("TypeError")
    ELSE JoinRuns(text_obj.runs, 1)

_extract_text(text_obj) ==
    IF text_obj.type = "str" THEN Ret(text_obj.text)
    ELSE IF text_obj.type # "dict" THEN Ret(<<>>)
    ELSE IF "simpleText" \in text_obj.keys THEN Ret(text_obj.text)
    ELSE IF "runs" \notin text_obj.keys THEN Ret(<<>>)
    ELSE IF text_obj.rtype \in {"num", "bool", "null"}
    THEN Throw("TypeError")   \* not iterable
    ELSE JoinRuns(text_obj.runs, 1)

\* A thumbnail object is [has, type, urls]: whether it has "thumbnails",
\* the type of that value, and for a list the "url" of each entry (Nothing
\* for an entry without one).  For a value of another type urls is <<>>
\* when the value is false ({}, "", 0, false, null) and not <<>> otherwise.
Thumbnail(has, urls) == [has |-> has, type |-> "list", urls |-> urls]
NoThumbnail == Thumbnail(FALSE, <<>>)
\* "thumbnails" holding a value of another type that is true, e.g. {"a": 1}
ThumbnailsOf(type) == [has |-> TRUE, type |-> type, urls |-> <<Nothing>>]

\* The url of the first entry, the lowest resolution.
FirstUrl(data) ==
    IF data.has /\ data.urls # <<>> THEN data.urls[1] ELSE Nothing

\* "if 'thumbnails' in data: thumbnails = data['thumbnails'];
\*  if thumbnails: url = thumbnails[-1].get('url')"
LastUrl(data) ==
    IF data.has /\ data.urls # <<>> THEN data.urls[Len(data.urls)] ELSE Nothing

\* The thumbnail lines of a branch: thumbnails[-1] of a mapping is a
\* KeyError, of a str its last character, which has no .get, and a number
\* cannot be subscripted.
ThumbnailUrl(data) ==
    IF ~data.has \/ data.urls = <<>> THEN Ret(Nothing)
    ELSE CASE data.type = "list" -> Ret(LastUrl(data))
           [] data.type = "dict" -> Throw("KeyError")
           [] data.type = "str" -> Throw("AttributeError")
           [] OTHER -> Throw("TypeError")

(***************************************************************************)
(* Structured extractor: _parse_json_item and _extract_json_results.       *)
(*                                                                         *)
(* An extraction step gives [exc, recs]: exc is "None" or the name of the *)
(* Python exception the step raises, recs the records it yields.           *)
(***************************************************************************)
Yield(recs) == [exc |-> "None", recs |-> recs]
Raise(exc) == [exc |-> exc, recs |-> <<>>]

\* An item is [type, keys, rtype, id, fields]: the node's type; the marker
\* keys that "in" finds in it (the keys of a dict, the elements of a list,
\* the substrings of a str); for a dict the type of the renderer value, the
\* renderer's id ("", that is <<>>, when it has none) and its other keys with their values.
Renderer(keys, id, fields) ==
    [type |-> "dict", keys |-> keys, rtype |-> "dict", id |-> id, fields |-> fields]

\* An item whose renderer has a plain string as title and nothing else.
Item(type, keys, rtype, id, title) ==
    [type |-> type, keys |-> keys, rtype |-> rtype, id |-> id,
     fields |-> [title |-> Str(title)]]

\* renderer.get(key, {}) and renderer.get(key, [])
Get(fields, key) == IF key \in DOMAIN fields THEN fields[key] ELSE EmptyDict
GetThumbnail(fields) ==
    IF "thumbnail" \in DOMAIN fields THEN fields["thumbnail"] ELSE NoThumbnail
GetThumbnails(fields) ==
    IF "thumbnails" \in DOMAIN fields THEN fields["thumbnails"] ELSE <<>>

\* A dispatch on the marker key alone.
DispatchAnyKind(item, result_type) ==
    IF "videoRenderer" \in item.keys THEN "video"
    ELSE IF "channelRenderer" \in item.keys THEN "channel"
    ELSE IF "playlistRenderer" \in item.keys THEN "playlist"
    ELSE "none"

\* The branch of the if/elif chain that _parse_json_item takes.
Dispatch(item, result_type) ==
    IF "videoRenderer" \in item.keys /\ result_type \in {"video", "all"}
    THEN "video"
    ELSE IF "channelRenderer" \in item.keys /\ result_type \in {"channel", "all"}
    THEN "channel"
    ELSE IF "playlistRenderer" \in item.keys /\ result_type \in {"playlist", "all"}
    THEN "playlist"
    ELSE "none"

JsonBase(kind) ==
    CASE kind = "video" -> WatchBase
      [] kind = "channel" -> ChannelBase
      [] OTHER -> PlaylistBase

\* The exception of the first step that raises, in the order of the code.
FirstExc(steps) ==
    IF \A i \in 1..Len(steps) : steps[i].exc = "None" THEN "None"
    ELSE steps[CHOOSE i \in 1..Len(steps) :
                   /\ steps[i].exc # "None"
                   /\ \A j \in 1..(i - 1) : steps[j].exc = "None"].exc

\* _parse_view_count(self._extract_text(...)): the argument is evaluated
\* first, and what it raises goes on.
ViewCount(text) == IF text.exc # "None" THEN text ELSE _parse_view_count(text.val)

\* _parse_video_count(self._extract_text(...))
VideoCount(text) == IF text.exc # "None" THEN text ELSE _parse_video_count(text.val)

\* VideoResult(...) from the values of the branch, or what the first of
\* them raises.
VideoBuilt(id, title, channel_title, duration_text, view_count, thumbnail_url) ==
    IF FirstExc(<<title, channel_title, duration_text, view_count, thumbnail_url>>) # "None"
    THEN Raise(FirstExc(<<title, channel_title, duration_text, view_count, thumbnail_url>>))
    ELSE Yield(<<[Record("video", title.val, JsonBase("video"), id)
                     EXCEPT !.channel_title = channel_title.val,
                            !.duration = Some(duration_text.val),
                            !.duration_seconds =
                                _parse_duration_to_seconds(duration_text.val).val,
                            !.view_count = view_count.val,
                            !.thumbnail_url = thumbnail_url.val]>>)

\* The "videoRenderer" branch.
VideoFrom(item) ==
    VideoBuilt(item.id,
               _extract_text(Get(item.fields, "title")),
               _extract_text(Get(item.fields, "ownerText")),
               _extract_text(Get(item.fields, "lengthText")),
               ViewCount(_extract_text(Get(item.fields, "viewCountText"))),
               ThumbnailUrl(GetThumbnail(item.fields)))

\* ChannelResult(...) from the values of the branch.
ChannelBuilt(id, name, description, subscriber_count, avatar_url) ==
    IF FirstExc(<<name, description, subscriber_count, avatar_url>>) # "None"
    THEN Raise(FirstExc(<<name, description, subscriber_count, avatar_url>>))
    ELSE Yield(<<[Record("channel", name.val, JsonBase("channel"), id)
                     EXCEPT !.description = Some(description.val),
                            !.subscriber_count = subscriber_count.val,
                            !.thumbnail_url = avatar_url.val]>>)

\* The "channelRenderer" branch.
ChannelFrom(item) ==
    ChannelBuilt(item.id,
                 _extract_text(Get(item.fields, "title")),
                 _extract_text(Get(item.fields, "descriptionSnippet")),
                 ViewCount(_extract_text(Get(item.fields, "subscriberCountText"))),
                 ThumbnailUrl(GetThumbnail(item.fields)))

\* "if thumbnails and 'thumbnails' in thumbnails[0]: ..."
FirstLastUrl(thumbnails) ==
    IF thumbnails # <<>> THEN ThumbnailUrl(thumbnails[1]) ELSE Ret(Nothing)

\* PlaylistResult(...) from the values of the branch.
PlaylistBuilt(id, title, channel_title, video_count, thumbnail_url) ==
    IF FirstExc(<<title, channel_title, video_count, thumbnail_url>>) # "None"
    THEN Raise(FirstExc(<<title, channel_title, video_count, thumbnail_url>>))
    ELSE Yield(<<[Record("playlist", title.val, JsonBase("playlist"), id)
                     EXCEPT !.channel_title = channel_title.val,
                            !.video_count = video_count.val,
                            !.thumbnail_url = thumbnail_url.val]>>)

\* The "playlistRenderer" branch.
PlaylistFrom(item) ==
    PlaylistBuilt(item.id,
                  _extract_text(Get(item.fields, "title")),
                  _extract_text(Get(item.fields, "ownerText")),
                  VideoCount(_extract_text(Get(item.fields, "videoCountText"))),
                  FirstLastUrl(GetThumbnails(item.fields)))

\* The body of the branch named kind ("none": the final "return None").
Branch(kind, item) ==
    IF kind = "none" THEN Yield(<<>>)
    ELSE IF item.type # "dict"
    THEN Raise("TypeError")        \* ["videoRenderer"]["videoRenderer"]
    ELSE IF item.rtype # "dict"
    THEN Raise("AttributeError")   \* video.get on a non-mapping
    ELSE CASE kind = "video" -> VideoFrom(item)
           [] kind = "channel" -> ChannelFrom(item)
           [] OTHER -> PlaylistFrom(item)

\* The caller's "if result:" keeps every record this returns: a dataclass
\* instance is always true, whatever its title and id are.
_parse_json_item(item, result_type) ==
    IF item.type \in {"num", "bool", "null"}
    THEN Raise("TypeError")        \* "videoRenderer" in 5, in True, in None
    ELSE Branch(Dispatch(item, result_type), item)

\* One iteration of an extraction loop followed by the later ones: what
\* the iteration raises ends the loop, and the records appended before it
\* are in the list.
Then(r, rest) ==
    IF r.exc # "None" THEN r
    ELSE [exc |-> rest.exc, recs |-> r.recs \o rest.recs]

RECURSIVE ItemsFrom(_, _, _)
\* for item in items: result = _parse_json_item(...); if result: append
ItemsFrom(items, i, result_type) ==
    IF i > Len(items) THEN Yield(<<>>)
    ELSE Then(_parse_json_item(items[i], result_type),
              ItemsFrom(items, i + 1, result_type))

\* A section is [type, isr, itype, items]: the node's type; whether "in"
\* finds "itemSectionRenderer" in it ("absent" when it does not) and for a
\* dict the type of that value; the type of the renderer's "contents"
\* ("missing" when it has none) and the elements a loop over it visits: the
\* elements of a list, the keys of a dict, the characters of a str.
Section(type, isr, items) ==
    [type |-> type, isr |-> isr, itype |-> "list", items |-> items]

\* "for item in items:" over the value of "contents"
SectionItems(sec, result_type) ==
    IF sec.itype \in {"num", "bool", "null"} THEN Raise("TypeError")
    ELSE IF sec.itype = "missing" THEN Yield(<<>>)
    ELSE ItemsFrom(sec.items, 1, result_type)

SectionFrom(sec, result_type) ==
    IF sec.type \in {"num", "bool", "null"} THEN Raise("TypeError")
    ELSE IF sec.isr = "absent" THEN Yield(<<>>)
    ELSE IF sec.type # "dict" THEN Raise("TypeError")   \* a list or str subscripted
    ELSE IF sec.isr # "dict" THEN Raise("AttributeError")
    ELSE SectionItems(sec, result_type)

RECURSIVE SectionsFrom(_, _, _)
SectionsFrom(secs, i, result_type) ==
    IF i > Len(secs) THEN Yield(<<>>)
    ELSE Then(SectionFrom(secs[i], result_type),
              SectionsFrom(secs, i + 1, result_type))

\* The four .get(key, {}) steps from the document root down to the
\* sectionListRenderer.  nav[i] is the type of the value under the i-th key
\* ("missing" when the key is absent, so that the {} default is used and
\* every later key is absent too).  The result is "dict", "missing", or
\* "raise" when .get is called on a value that is no mapping.
RECURSIVE Navigate(_, _)
Navigate(nav, i) ==
    IF i > Len(nav) THEN "dict"
    ELSE IF nav[i] = "missing" THEN "missing"
    ELSE IF nav[i] # "dict" THEN "raise"
    ELSE Navigate(nav, i + 1)

\* The embedded document is [var, nav, contents, sections]: var says whether
\* the regular expression finds "var ytInitialData = {...};" and whether
\* json.loads accepts the match; contents is the type of the section list
\* ("missing" when the key is absent) and sections the elements a loop over
\* it visits: the elements of a list, the keys of a dict, the characters of
\* a str.
Json(var, nav, contents, sections) ==
    [var |-> var, nav |-> nav, contents |-> contents, sections |-> sections]

\* The except clause of _extract_json_results: only json.JSONDecodeError
\* and KeyError are caught.
Caught == {"JSONDecodeError", "KeyError"}

\* The walk below a root that is reached: at is the result of Navigate.
WalkFrom(at, json, result_type) ==
    IF at = "raise" THEN Raise("AttributeError")
    ELSE IF at = "missing" \/ json.contents = "missing" THEN Yield(<<>>)
    ELSE IF json.contents \in {"num", "bool", "null"} THEN Raise("TypeError")
    ELSE SectionsFrom(json.sections, 1, result_type)

JsonWalk(json, result_type) ==
    IF json.var = "invalid" THEN Raise("JSONDecodeError")
    ELSE WalkFrom(Navigate(json.nav, 1), json, result_type)

\* "except (json.JSONDecodeError, KeyError): pass" and "return results"
Absorb(r) == IF r.exc \in Caught THEN Yield(r.recs) ELSE r

_extract_json_results(json, result_type) ==
    IF json.var = "absent" THEN Yield(<<>>)
    ELSE Absorb(JsonWalk(json, result_type))

(***************************************************************************)
(* Fallback extractor: _parse_html_results and the container parsers.      *)
(*                                                                         *)
(* A container is the element a container selector matches, as what the    *)
(* parsers read from it: kind is the selector group that matches it;       *)
(* dataId its data-context-item-id attribute ("" when absent); hrefs the   *)
(* href of each anchor inside it, in document order; titleAttr and text    *)
(* the title attribute ("" when absent) and the text of the title or name  *)
(* element (both "" when no element matches); channel, duration,           *)
(* description and count the text of the element showing the channel name, *)
(* the duration, the description and the subscriber or video count         *)
(* (Nothing when the container has no such element); img the src and       *)
(* data-src of its first image (Nothing without an image, and either       *)
(* attribute Nothing when absent); raises says that something inside the   *)
(* try block throws.                                                       *)
(***************************************************************************)
Img(src, dataSrc) == [src |-> src, dataSrc |-> dataSrc]

\* A container with an id, anchors and a title element and nothing else.
Container(kind, dataId, hrefs, titleAttr, text, raises) ==
    [kind |-> kind, dataId |-> dataId, hrefs |-> hrefs,
     titleAttr |-> titleAttr, text |-> text,
     channel |-> Nothing, duration |-> Nothing, description |-> Nothing,
     count |-> Nothing, img |-> Nothing, raises |-> raises]

WatchPat == <<"w", "a", "t", "c", "h", "?", "v", "=">>
ListPat == <<"l", "i", "s", "t", "=">>
ChannelPats == {<<"/", "c", "h", "a", "n", "n", "e", "l", "/">>, <<"/", "c", "/">>, <<"/", "@">>}

\* container.select_one('a[href*="..."], ...'): the href of the first anchor
\* that contains one of the patterns.
FirstWith(hrefs, pats) ==
    IF \A i \in 1..Len(hrefs) : \A p \in pats : ~Contains(hrefs[i], p) THEN Nothing
    ELSE Some(hrefs[CHOOSE i \in 1..Len(hrefs) :
                        /\ \E p \in pats : Contains(hrefs[i], p)
                        /\ \A j \in 1..(i - 1) : \A p \in pats : ~Contains(hrefs[j], p)])

\* "if link: match = re.search(...); if match: ... = match.group(1)", with
\* "" for no link and for no match.
Captured(link, pat) ==
    IF link = Nothing \/ Capture(link[1], pat) = Nothing THEN <<>>
    ELSE Capture(link[1], pat)[1]

\* get_text(strip=True) of an element with one text
GetText(text) == Strip(text)

\* "elem.get_text(strip=True) if elem else ''"
TextOrEmpty(elem) == IF elem = Nothing THEN <<>> ELSE GetText(elem[1])

\* title_elem.get('title', '') or title_elem.get_text(strip=True)
AttrOrText(c) == IF c.titleAttr # <<>> THEN c.titleAttr ELSE GetText(c.text)

\* "a or b" for two Optional texts: a when it is a non-empty text
Or(a, b) == IF a # Nothing /\ a[1] # <<>> THEN a ELSE b

\* "if url and url.startswith('//'): url = 'https:' + url"
Prefixed(url) ==
    IF url # Nothing /\ StartsWith(url[1], <<"/", "/">>)
    THEN Some(<<"h", "t", "t", "p", "s", ":">> \o url[1])
    ELSE url

\* "img_elem.get('src') or img_elem.get('data-src') if img_elem else None"
\* and the normalisation that follows it.
ImageUrl(img) ==
    IF img = Nothing THEN Nothing ELSE Prefixed(Or(img[1].src, img[1].dataSrc))

\* A container parser without its handler: the exception goes on.
SwallowNothing(r) == r

\* "except Exception: pass" followed by "return None".
Swallow(r) == IF r.exc # "None" THEN Yield(<<>>) ELSE r

\* An id taken from the first anchor even when the data attribute is there.
AnchorFirst(c) ==
    IF Captured(FirstWith(c.hrefs, {WatchPat}), WatchPat) # <<>>
    THEN Captured(FirstWith(c.hrefs, {WatchPat}), WatchPat)
    ELSE c.dataId

\* "video_id = container.get('data-context-item-id'); if not video_id: ..."
VideoId(c) ==
    IF c.dataId # <<>> THEN c.dataId
    ELSE Captured(FirstWith(c.hrefs, {WatchPat}), WatchPat)

\* The video parser from the id on.
VideoBuiltFrom(c, video_id, title, duration) ==
    IF video_id = <<>> THEN Yield(<<>>)
    ELSE IF title = <<>> THEN Yield(<<>>)
    ELSE Yield(<<[Record("video", title, WatchBase, video_id)
                     EXCEPT !.channel_title = TextOrEmpty(c.channel),
                            !.duration = Some(duration),
                            !.duration_seconds = _parse_duration_to_seconds(duration).val,
                            !.thumbnail_url = ImageUrl(c.img)]>>)

VideoBody(c) ==
    IF c.raises THEN Raise("Exception")
    ELSE VideoBuiltFrom(c, VideoId(c), AttrOrText(c), TextOrEmpty(c.duration))

_parse_video_container(c) == Swallow(VideoBody(c))

(***************************************************************************)
(* urllib.parse.urljoin('https://www.youtube.com', href) on an href of     *)
(* characters up to U+00FF: urlparse(href, 'https'), which raises          *)
(* ValueError for a bracketed host that is no IPv6 or IPvFuture address,   *)
(* then the resolution against the base and urlunparse.                    *)
(***************************************************************************)
Https == <<"h", "t", "t", "p", "s">>
SiteHost == <<"w", "w", "w", ".", "y", "o", "u", "t", "u", "b", "e", ".", "c", "o", "m">>
SiteBase == Https \o <<":", "/", "/">> \o SiteHost

\* scheme_chars
SchemeChars == Letters \cup DigitChars \cup {"+", "-", "."}
\* _HEX_DIGITS
HexChars == DigitChars \cup {"a", "b", "c", "d", "e", "f", "A", "B", "C", "D", "E", "F"}

RECURSIVE LStripC0(_)
\* url.lstrip(_WHATWG_C0_CONTROL_OR_SPACE): the characters up to U+0020
LStripC0(url) ==
    IF url # <<>> /\ Ord(Head(url)) <= 32 THEN LStripC0(Tail(url)) ELSE url

\* The url urlsplit works on: stripped on the left, without tab, CR and LF.
Cleaned(url) == SelectSeq(LStripC0(url), LAMBDA ch : ch \notin {"\t", "\r", "\n"})

\* The length of the scheme a cleaned url starts with, 0 when it has none:
\* a letter, then scheme characters up to the first ':'.
SchemeLen(url) ==
    IF /\ IndexOf(url, {":"}, 1) \in 2..Len(url)
       /\ url[1] \in Letters
       /\ \A j \in 1..(IndexOf(url, {":"}, 1) - 1) : url[j] \in SchemeChars
    THEN IndexOf(url, {":"}, 1) - 1
    ELSE 0

\* ipaddress._parse_octet succeeds
Octet(s) ==
    /\ IsDigits(s)
    /\ Len(s) <= 3
    /\ s = <<"0">> \/ s[1] # "0"
    /\ DigitsValue(s) <= 255

\* IPv4Address(s) succeeds
IPv4(s) == Len(Split(s, ".")) = 4 /\ \A i \in 1..4 : Octet(Split(s, ".")[i])

\* ipaddress._parse_hextet succeeds
Hextet(s) == s # <<>> /\ Len(s) <= 4 /\ \A i \in 1..Len(s) : s[i] \in HexChars

\* The parts between the colons once an IPv4 suffix is two hextets.
Hextets(parts) ==
    IF Contains(parts[Len(parts)], <<".">>)
    THEN SubSeq(parts, 1, Len(parts) - 1) \o << <<"0">>, <<"0">> >>
    ELSE parts

\* The empty parts between the first and the last: the places of a '::'.
SkipAt(parts) == {i \in 2..(Len(parts) - 1) : parts[i] = <<>>}
\* parts_hi and parts_lo for a '::' at the place k
PartsHi(parts, k) == IF parts[1] = <<>> THEN k - 2 ELSE k - 1
PartsLo(parts, k) == IF parts[Len(parts)] = <<>> THEN Len(parts) - k - 1 ELSE Len(parts) - k

\* An address with '::' at the place k: an empty first or last part belongs
\* to the '::', at least one hextet is skipped, the others are well formed.
Skipped(parts, k) ==
    /\ parts[1] = <<>> => PartsHi(parts, k) = 0
    /\ parts[Len(parts)] = <<>> => PartsLo(parts, k) = 0
    /\ PartsHi(parts, k) + PartsLo(parts, k) <= 7
    /\ \A i \in 1..PartsHi(parts, k) : Hextet(parts[i])
    /\ \A i \in (Len(parts) - PartsLo(parts, k) + 1)..Len(parts) : Hextet(parts[i])

IPv6Parts(parts) ==
    /\ Len(parts) <= 9
    /\ Cardinality(SkipAt(parts)) <= 1
    /\ IF SkipAt(parts) = {}
       THEN Len(parts) = 8 /\ \A i \in 1..8 : Hextet(parts[i])
       ELSE Skipped(parts, CHOOSE k \in SkipAt(parts) : TRUE)

\* IPv6Address._ip_int_from_string succeeds
IPv6Bare(s) ==
    /\ s # <<>>
    /\ Len(Split(s, ":")) >= 3
    /\ Contains(Split(s, ":")[Len(Split(s, ":"))], <<".">>) =>
           IPv4(Split(s, ":")[Len(Split(s, ":"))])
    /\ IPv6Parts(Hextets(Split(s, ":")))

\* IPv6Address(s) succeeds: no '/', a scope id after '%' that is not empty
\* and holds no '%', and a well-formed address before it.
IPv6(s) ==
    /\ \A i \in 1..Len(s) : s[i] # "/"
    /\ IF IndexOf(s, {"%"}, 1) > Len(s) THEN IPv6Bare(s)
       ELSE /\ IndexOf(s, {"%"}, 1) < Len(s)
            /\ \A i \in (IndexOf(s, {"%"}, 1) + 1)..Len(s) : s[i] # "%"
            /\ IPv6Bare(SubSeq(s, 1, IndexOf(s, {"%"}, 1) - 1))

\* re.match(r"\Av[a-fA-F0-9]+\..+\Z", s) for an s that starts with 'v'
IPvFuture(s) ==
    /\ IndexOf(s, {"."}, 1) \in 3..(Len(s) - 1)
    /\ \A i \in 2..(IndexOf(s, {"."}, 1) - 1) : s[i] \in HexChars
    /\ \A i \in 1..Len(s) : s[i] # "\n"

\* _check_bracketed_host(hostname) passes.  (An IPv4 address in brackets is
\* rejected, and it is no IPv6 address either.)
BracketedHost(hostname) ==
    IF StartsWith(hostname, <<"v">>) THEN IPvFuture(hostname) ELSE IPv6(hostname)

\* netloc.partition('[')[2].partition(']')[0]
Bracketed(netloc) ==
    SubSeq(netloc, IndexOf(netloc, {"["}, 1) + 1,
           IndexOf(netloc, {"]"}, IndexOf(netloc, {"["}, 1) + 1) - 1)

\* urlsplit raises ValueError for the netloc: one bracket without the
\* other, or brackets around a host that is no address.
BadNetloc(netloc) ==
    \/ (IndexOf(netloc, {"["}, 1) <= Len(netloc)) # (IndexOf(netloc, {"]"}, 1) <= Len(netloc))
    \/ /\ IndexOf(netloc, {"["}, 1) <= Len(netloc)
       /\ IndexOf(netloc, {"]"}, 1) <= Len(netloc)
       /\ ~BracketedHost(Bracketed(netloc))

\* What is behind the scheme and the netloc, split at the first '#' and
\* then at the first '?' before it.
UrlParts(scheme, netloc, rest, hash) ==
    [scheme |-> scheme, netloc |-> netloc,
     path |-> SubSeq(rest, 1, IndexOf(SubSeq(rest, 1, hash - 1), {"?"}, 1) - 1),
     query |-> SubSeq(rest, IndexOf(SubSeq(rest, 1, hash - 1), {"?"}, 1) + 1, hash - 1),
     fragment |-> SubSeq(rest, hash + 1, Len(rest))]

\* _splitnetloc(url, 2): the netloc ends at the first '/', '?' or '#'
AfterNetloc(scheme, rest, end) ==
    UrlParts(scheme, SubSeq(rest, 3, end - 1), SubSeq(rest, end, Len(rest)),
             IndexOf(SubSeq(rest, end, Len(rest)), {"#"}, 1))

\* urlsplit from the scheme on: rest is the url behind it
AfterScheme(scheme, rest) ==
    IF StartsWith(rest, <<"/", "/">>)
    THEN AfterNetloc(scheme, rest, IndexOf(rest, {"/", "?", "#"}, 3))
    ELSE UrlParts(scheme, <<>>, rest, IndexOf(rest, {"#"}, 1))

\* urlsplit(url, 'https') of a cleaned url, before its checks of the netloc
UrlSplit(url) ==
    IF SchemeLen(url) = 0 THEN AfterScheme(Https, url)
    ELSE AfterScheme(Lower(SubSeq(url, 1, SchemeLen(url))),
                     SubSeq(url, SchemeLen(url) + 2, Len(url)))

\* The place of the last '/' of the path, 1 when it has none.
LastSlash(path) ==
    IF \A i \in 1..Len(path) : path[i] # "/" THEN 1
    ELSE CHOOSE i \in 1..Len(path) :
             path[i] = "/" /\ \A j \in (i + 1)..Len(path) : path[j] # "/"

\* _splitparams(path), and no params for a path without ';' behind its
\* last '/'
SplitParams(path) ==
    IF IndexOf(path, {";"}, LastSlash(path)) > Len(path)
    THEN [path |-> path, params |-> <<>>]
    ELSE [path |-> SubSeq(path, 1, IndexOf(path, {";"}, LastSlash(path)) - 1),
          params |-> SubSeq(path, IndexOf(path, {";"}, LastSlash(path)) + 1, Len(path))]

\* The segments of a path that starts with '/', and for another path ''
\* (what is left of the base's path) before its segments, the empty ones
\* between the first and the last dropped.
Segments(path) ==
    IF StartsWith(path, <<"/">>) THEN Split(path, "/")
    ELSE << <<>> >>
             \o SelectSeq(SubSeq(Split(path, "/"), 1, Len(Split(path, "/")) - 1),
                          LAMBDA seg : seg # <<>>)
             \o <<Split(path, "/")[Len(Split(path, "/"))]>>

RECURSIVE Resolved(_, _, _)
\* "for seg in segments": '..' drops the last segment kept so far, if any,
\* '.' is dropped, another segment is kept.
Resolved(segments, i, out) ==
    IF i > Len(segments) THEN out
    ELSE IF segments[i] = <<".", ".">>
    THEN Resolved(segments, i + 1, SubSeq(out, 1, Len(out) - 1))
    ELSE IF segments[i] = <<".">> THEN Resolved(segments, i + 1, out)
    ELSE Resolved(segments, i + 1, Append(out, segments[i]))

RECURSIVE JoinSlash(_)
\* '/'.join(parts)
JoinSlash(parts) ==
    IF parts = <<>> THEN <<>>
    ELSE IF Len(parts) = 1 THEN parts[1]
    ELSE parts[1] \o <<"/">> \o JoinSlash(Tail(parts))

\* "'/'.join(resolved_path) or '/'", a last segment '.' or '..' leaving a
\* trailing '/'
ResolvedPath(segments) ==
    IF JoinSlash(Resolved(segments, 1, <<>>)
                     \o (IF segments[Len(segments)] \in {<<".">>, <<".", ".">>}
                         THEN << <<>> >> ELSE <<>>)) = <<>>
    THEN <<"/">>
    ELSE JoinSlash(Resolved(segments, 1, <<>>)
                       \o (IF segments[Len(segments)] \in {<<".">>, <<".", ".">>}
                           THEN << <<>> >> ELSE <<>>))

\* url with '/' before it unless it is empty or starts with one
Rooted(url) == IF url # <<>> /\ Head(url) # "/" THEN <<"/">> \o url ELSE url

\* urlunparse(('https', netloc, path, params, query, fragment)) for a
\* netloc that is not empty
UrlUnparse(netloc, path, params, query, fragment) ==
    Https \o <<":", "/", "/">> \o netloc
        \o Rooted(path \o (IF params # <<>> THEN <<";">> \o params ELSE <<>>))
        \o (IF query # <<>> THEN <<"?">> \o query ELSE <<>>)
        \o (IF fragment # <<>> THEN <<"#">> \o fragment ELSE <<>>)

\* urljoin behind urlparse: u is what urlsplit gave and p its path split
\* into path and params.  An href of another scheme is returned as it is,
\* one with a netloc keeps it, one without path and params gets the base,
\* and any other has its path resolved against the base's.
Resolve(href, u, p) ==
    IF u.scheme # Https THEN href
    ELSE IF u.netloc # <<>>
    THEN UrlUnparse(u.netloc, p.path, p.params, u.query, u.fragment)
    ELSE IF p.path = <<>> /\ p.params = <<>>
    THEN UrlUnparse(SiteHost, <<>>, <<>>, u.query, u.fragment)
    ELSE UrlUnparse(SiteHost, ResolvedPath(Segments(p.path)), p.params,
                    u.query, u.fragment)

\* urljoin('https://www.youtube.com', href)
UrlJoin(href) ==
    IF href = <<>> THEN Ret(SiteBase)
    ELSE IF BadNetloc(UrlSplit(Cleaned(href)).netloc) THEN Throw("ValueError")
    ELSE Ret(Resolve(href, UrlSplit(Cleaned(href)),
                     SplitParams(UrlSplit(Cleaned(href)).path)))

\* The channel parser behind urljoin.
ChannelAt(c, channel_url, name) ==
    IF channel_url.exc # "None" THEN Raise(channel_url.exc)
    ELSE IF name = <<>> THEN Yield(<<>>)
    ELSE Yield(<<[Record("channel", name, "", channel_url.val)
                     EXCEPT !.description = Some(TextOrEmpty(c.description)),
                            !.thumbnail_url = ImageUrl(c.img)]>>)

\* The channel parser from the link on.
ChannelBuiltFrom(c, link, name) ==
    IF link = Nothing THEN Yield(<<>>)
    ELSE ChannelAt(c, UrlJoin(link[1]), name)

\* The name is the text of the name element only.
ChannelBody(c) ==
    IF c.raises THEN Raise("Exception")
    ELSE ChannelBuiltFrom(c, FirstWith(c.hrefs, ChannelPats), GetText(c.text))

_parse_channel_container(c) == Swallow(ChannelBody(c))

\* The playlist parser from the id on ("" for no link or no match).
PlaylistBuiltFrom(c, playlist_id, title) ==
    IF playlist_id = <<>> THEN Yield(<<>>)
    ELSE IF title = <<>> THEN Yield(<<>>)
    ELSE Yield(<<[Record("playlist", title, PlaylistBase, playlist_id)
                     EXCEPT !.channel_title = TextOrEmpty(c.channel),
                            !.thumbnail_url = ImageUrl(c.img)]>>)

PlaylistBody(c) ==
    IF c.raises THEN Raise("Exception")
    ELSE PlaylistBuiltFrom(c, Captured(FirstWith(c.hrefs, {ListPat}), ListPat),
                           AttrOrText(c))

_parse_playlist_container(c) == Swallow(PlaylistBody(c))

ParseContainer(c) ==
    CASE c.kind = "video" -> _parse_video_container(c)
      [] c.kind = "channel" -> _parse_channel_container(c)
      [] OTHER -> _parse_playlist_container(c)

RECURSIVE ContainersFrom(_, _, _)
\* One "for container in soup.select(...)" loop: the containers of one kind,
\* in document order.
ContainersFrom(html, i, kind) ==
    IF i > Len(html) THEN Yield(<<>>)
    ELSE IF html[i].kind # kind THEN ContainersFrom(html, i + 1, kind)
    ELSE Then(ParseContainer(html[i]), ContainersFrom(html, i + 1, kind))

\* The loop of one kind, run only when the filter asks for the kind.
KindLoop(html, kind, result_type) ==
    IF result_type \in {kind, "all"} THEN ContainersFrom(html, 1, kind)
    ELSE Yield(<<>>)

\* A fallback extractor whose channel loop runs before its video loop.
ChannelsFirst(html, result_type) ==
    Then(KindLoop(html, "channel", result_type),
         Then(KindLoop(html, "video", result_type),
              KindLoop(html, "playlist", result_type)))

_parse_html_results(html, result_type) ==
    Then(KindLoop(html, "video", result_type),
         Then(KindLoop(html, "channel", result_type),
              KindLoop(html, "playlist", result_type)))

(***************************************************************************)
(* Pages and the other inputs of a search.                                 *)
(***************************************************************************)
Page(json, html) == [json |-> json, html |-> html]

SeqsUpTo(S, n) == UNION {[1..m -> S] : m \in 0..n}

GoodNav == <<"dict", "dict", "dict", "dict">>
NavKinds == {"dict", "missing", "list", "str", "num", "bool", "null"}
\* Navigation paths with at most one node that is no mapping.
NavSeqs ==
    {nav \in [1..4 -> NavKinds] : Cardinality({i \in 1..4 : nav[i] # "dict"}) <= 1}

GoodVideoItem == Item("dict", {"videoRenderer"}, "dict", Abc123, Intro)
\* videoId abc123, title Intro, "2.5M views", "10:30"
IntroVideoItem ==
    Renderer({"videoRenderer"}, Abc123,
             [title |-> SimpleText(Intro),
              viewCountText |->
                  SimpleText(<<"2", ".", "5", "M", " ", "v", "i", "e", "w", "s">>),
              lengthText |-> SimpleText(<<"1", "0", ":", "3", "0">>)])
\* videoId xyz789 whose "thumbnail" is {"thumbnails": {"a": 1}}
MapThumbsItem ==
    Renderer({"videoRenderer"}, Xyz789,
             [title |-> Str(Intro), thumbnail |-> ThumbnailsOf("dict")])
EmptyIdItem == Item("dict", {"videoRenderer"}, "dict", <<>>, Intro)
ChannelItem == Item("dict", {"channelRenderer"}, "dict", Abc123, Intro)
\* The items of the documents with several items.
DocItems ==
    {GoodVideoItem,
     EmptyIdItem,
     ChannelItem,
     Item("dict", {"playlistRenderer"}, "dict", Abc123, Intro),
     Item("dict", {}, "dict", <<>>, <<>>),
     MapThumbsItem,
     Item("list", {"videoRenderer"}, "dict", <<>>, <<>>),
     Item("null", {}, "dict", <<>>, <<>>)}
JsonItems ==
    DocItems
    \cup {IntroVideoItem,
          Item("dict", {"videoRenderer"}, "dict", Abc123, <<>>),
          Item("dict", {"videoRenderer", "channelRenderer"}, "dict", Abc123, Intro),
          Item("dict", {"videoRenderer"}, "list", <<>>, <<>>),
          Item("list", {}, "dict", <<>>, <<>>),
          Item("str", {"videoRenderer"}, "dict", <<>>, <<>>),
          Item("num", {}, "dict", <<>>, <<>>),
          Item("bool", {}, "dict", <<>>, <<>>),
          \* a title of {"runs": {}} and one of {"runs": "ab"}
          Renderer({"videoRenderer"}, Xyz789,
                   [title |-> TextObj("dict", <<>>, {"runs"}, "dict", <<>>)]),
          Renderer({"videoRenderer"}, Xyz789,
                   [title |-> TextObj("dict", <<>>, {"runs"}, "str", Strs(2))])}

GoodSection == Section("dict", "dict", <<GoodVideoItem>>)
\* The sections of the documents with several sections.
DocSections ==
    {GoodSection,
     Section("dict", "absent", <<>>),
     Section("dict", "list", <<>>),
     Section("list", "found", <<>>),
     Section("null", "absent", <<>>)}
SectionVariants ==
    DocSections
    \cup {Section("list", "absent", <<>>),
          Section("str", "found", <<>>),
          Section("num", "absent", <<>>),
          Section("bool", "absent", <<>>)}
\* "contents" of an itemSectionRenderer that is no list: a loop over a
\* mapping visits its keys and a loop over a str its characters.
ContentsVariants ==
    {[GoodSection EXCEPT !.itype = k, !.items = <<>>] :
         k \in {"missing", "num", "bool", "null"}}
    \cup {[GoodSection EXCEPT !.itype = "dict",
                              !.items = <<Item("str", ks, "dict", <<>>, <<>>)>>] :
              ks \in {{}, {"videoRenderer"}}}
    \cup {[GoodSection EXCEPT !.itype = "str",
                              !.items = <<Item("str", {}, "dict", <<>>, <<>>)>>]}

\* A channel in the first section, a video in the second.
TwoSections ==
    Json("ok", GoodNav, "list",
         <<Section("dict", "dict", <<ChannelItem>>), GoodSection>>)
NoJson == Json("absent", GoodNav, "list", <<>>)
BadJson == Json("invalid", GoodNav, "list", <<>>)
GoodJson == Json("ok", GoodNav, "list", <<GoodSection>>)

JsonDocs ==
    {NoJson, BadJson}
    \cup {Json("ok", nav, "list", <<GoodSection>>) : nav \in NavSeqs}
    \cup {Json("ok", GoodNav, k, <<>>) : k \in {"missing", "num", "bool", "null"}}
    \cup {Json("ok", GoodNav, "dict", <<Section("str", isr, <<>>)>>) :
              isr \in {"absent", "found"}}
    \cup {Json("ok", GoodNav, "str", <<Section("str", "absent", <<>>)>>)}
    \cup {Json("ok", GoodNav, "list", <<sec>>) : sec \in ContentsVariants}
    \cup {Json("ok", GoodNav, "list", <<sec>>) : sec \in SectionVariants}
    \cup {Json("ok", GoodNav, "list", secs) : secs \in SeqsUpTo(DocSections, MaxSections)}
    \cup {Json("ok", GoodNav, "list", <<Section("dict", "dict", <<item>>)>>) :
              item \in JsonItems}
    \cup {Json("ok", GoodNav, "list", <<Section("dict", "dict", items)>>) :
              items \in SeqsUpTo(DocItems, MaxItems)}
    \cup {TwoSections}

Fallback == <<"F", "a", "l", "l", "b", "a", "c", "k">>
WatchHref == <<"/", "w", "a", "t", "c", "h", "?", "v", "=", "x", "y", "z", "7", "8", "9", "&", "t", "=", "1">>
ChannelHref == <<"/", "c", "h", "a", "n", "n", "e", "l", "/", "x", "y", "z", "7", "8", "9">>
ListHref == <<"/", "p", "l", "a", "y", "l", "i", "s", "t", "?", "l", "i", "s", "t", "=", "x", "y", "z", "7", "8", "9">>
NoListHref == <<"/", "p", "l", "a", "y", "l", "i", "s", "t", "?", "l", "i", "s", "t", "=">>
GoodVideoContainer == Container("video", Xyz789, <<>>, Fallback, <<>>, FALSE)
Containers ==
    {GoodVideoContainer,
     Container("video", <<>>, <<WatchHref>>, <<>>, Fallback, FALSE),
     Container("video", <<>>, <<>>, Fallback, <<>>, FALSE),
     Container("video", Xyz789, <<>>, <<>>, <<>>, FALSE),
     Container("video", Xyz789, <<>>, Fallback, <<>>, TRUE),
     Container("channel", <<>>, <<ChannelHref>>, <<>>, Fallback, FALSE),
     Container("playlist", <<>>, <<ListHref>>, Fallback, <<>>, FALSE),
     Container("playlist", <<>>, <<NoListHref>>, Fallback, <<>>, FALSE)}

HtmlDocs == SeqsUpTo(Containers, MaxContainers)

Pages ==
    {Page(j, h) : j \in JsonDocs, h \in {<<>>, <<GoodVideoContainer>>}}
    \cup {Page(j, h) : j \in {NoJson, GoodJson}, h \in HtmlDocs}

\* The pages of the runs that are about the session and the handlers.
FewPages ==
    {Page(GoodJson, <<GoodVideoContainer>>),
     Page(NoJson, <<GoodVideoContainer>>),
     Page(Json("ok", <<"list", "dict", "dict", "dict">>, "list", <<GoodSection>>), <<>>)}

Statuses == {200, 204, 404}
\* The max_results a caller passes: None, or an int (a negative one too).
MaxResultsArgs == {Nothing} \cup {Some(n) : n \in 0..MaxK}
\* The max_results a client object is constructed with.
ClientMaxResults == {Some(1), Some(DefaultMaxResults)}

QueryChars == {" ", "a"}
\* Queries of line breaks and other whitespace: '\n', '\r\n', '\f', ' \n '
BlankLines == {<<"\n">>, <<"\r", "\n">>, <<"\f">>, <<" ", "\n", " ">>}
Queries == SeqsUpTo(QueryChars, MaxQueryLen) \cup BlankLines


\* results[:max_results]: the whole list for None, the first n records for
\* n >= 0, and the list without its last -n records for n < 0.
Truncate(results, limit) ==
    IF limit = Nothing THEN results
    ELSE IF limit[1] >= 0 THEN SubSeq(results, 1, Min(limit[1], Len(results)))
    ELSE SubSeq(results, 1, Len(results) + limit[1])

\* max_results or self.max_results: None and 0 are both false, and then
\* the client's value is taken whatever it is.
EffectiveMax(arg, own) ==
    IF arg = Nothing \/ arg = Some(0) THEN own ELSE arg

\* The coordinator with the fallback run unconditionally, and with it left out.
AlwaysFallback(results) == TRUE
NeverFallback(results) == FALSE

\* "if not results:" in _parse_search_results
NeedsFallback(results) == results = <<>>

(***************************************************************************)
(* The state machine of search calls.                                      *)
(***************************************************************************)
Calls == {"c1", "c2"}
Clients == {"k1", "k2"}

IdleCall ==
    [pc |-> "idle", client |-> "k1", query |-> <<>>, max_results |-> Nothing,
     result_type |-> "video", limit |-> Nothing, own |-> None, req |-> None,
     fetches |-> 0, status |-> None, page |-> Page(NoJson, <<>>),
     log |-> <<>>, json_results |-> <<>>, html_results |-> <<>>,
     results |-> <<>>, returned |-> <<>>, outcome |-> "none",
     message |-> "", response_code |-> None, exc |-> "None",
     escapes |-> "None", pending |-> Nothing]

NoCli ==
    [pc |-> "off", entry |-> "none", handler |-> "none", command |-> Nothing,
     query |-> <<>>, max_results |-> Nothing, type |-> "video",
     format |-> "table", ytdlpa |-> FALSE, ytdlpv |-> FALSE,
     outcome |-> "none", lookups |-> 0, fetchesAtLookup |-> 0]

NoWrap == [pc |-> "off", kind |-> "video", outcome |-> "none", out |-> <<>>]

NoCalc == [pc |-> "off", fn |-> "none", arg |-> <<>>, res |-> <<>>]

\* No call, no session, no command-line run; the clients constructed with
\* the max_results of ms.
Constructed(ms) ==
    /\ call = [c \in Calls |-> IdleCall]
    /\ session = [k \in Clients |-> None]
    /\ max_results = ms
    /\ closed = {}
    /\ nextSession = 1
    /\ cli = NoCli
    /\ wrap = NoWrap

\* YouTubeSearchClient() for every client.
InitClient == Constructed([k \in Clients |-> Some(DefaultMaxResults)])

InitDefault == InitClient /\ calc = NoCalc

\* YouTubeSearchClient(max_results=m) for the client of the first call.
Init ==
    /\ \E m \in ClientMaxResults :
           Constructed([k \in Clients |->
                            IF k = "k1" THEN m ELSE Some(DefaultMaxResults)])
    /\ calc = NoCalc

\* __aexit__: "if self.session: await self.session.close()".  It closes the
\* session the client holds now, whichever call opened it.
Exit(k) == IF session[k] # None THEN closed \cup {session[k]} ELSE closed

\* A call suspended in "await self.session.close()": the session is marked
\* closed, and the value or the exception that done says leaves the call
\* is pending until close() is over.
Suspended(done) ==
    [done EXCEPT !.pc = "closing", !.outcome = "none", !.escapes = "None",
                 !.message = "", !.response_code = None, !.returned = <<>>,
                 !.pending = Some([outcome |-> done.outcome, escapes |-> done.escapes,
                                   message |-> done.message,
                                   response_code |-> done.response_code,
                                   returned |-> done.returned])]

\* close() is over: what was pending leaves the call.
Resumed(rec) ==
    [rec EXCEPT !.pc = "done", !.outcome = rec.pending[1].outcome,
                !.escapes = rec.pending[1].escapes,
                !.message = rec.pending[1].message,
                !.response_code = rec.pending[1].response_code,
                !.returned = rec.pending[1].returned, !.pending = Nothing]

\* The end of "async with self" for a call that ends as done: close()
\* either suspends the call or is over at once.
Leave(done, wait) == IF wait THEN Suspended(done) ELSE done

\* An exception object: its class, its message without the detail the code
\* appends to it, and the response_code of a SearchError (None for every
\* other class).
Exc(type, message, code) == [type |-> type, message |-> message, code |-> code]

\* An _async_search without the handler of its try block.
Unhandled(e) == e

\* "except Exception as e: if isinstance(e, SearchError): raise
\*  raise SearchError(f'Search failed: {str(e)}')"
Handler(e) ==
    IF e.type = "SearchError" THEN e ELSE Exc("SearchError", "Search failed", None)

\* The call record when the exception e leaves the call.
Left(rec, cause, e) ==
    [rec EXCEPT !.pc = "done", !.outcome = "error", !.exc = cause,
                !.escapes = e.type, !.message = e.message,
                !.response_code = e.code, !.log = @ \o <<"close">>]

\* An exception is raised inside the try block of _async_search: the
\* handler re-raises a SearchError and wraps anything else, then the
\* "async with" closes.
Raised(c, exc, message, code) ==
    Left(call[c], exc, Handler(Exc(exc, message, code)))

\* _async_search up to its first suspension: the query check, __aenter__,
\* _build_search_url and the session.get of _fetch_page.
DoStart(c, k, q, mr, rt) ==
    /\ call[c].pc = "idle"
    /\ IF Strip(q) = <<>>
       THEN /\ call' = [call EXCEPT ![c] =
                    [@ EXCEPT !.pc = "done", !.client = k, !.query = q,
                              !.max_results = mr, !.result_type = rt,
                              !.outcome = "error", !.exc = "SearchError",
                              !.escapes = "SearchError",
                              !.message = "Query cannot be empty"]]
            /\ UNCHANGED <<session, closed, nextSession>>
       ELSE /\ call' = [call EXCEPT ![c] =
                    [@ EXCEPT !.pc = "awaitStatus", !.client = k, !.query = q,
                              !.max_results = mr, !.result_type = rt,
                              !.limit = EffectiveMax(mr, max_results[k]),
                              !.own = nextSession, !.req = nextSession,
                              !.fetches = @ + 1,
                              !.log = @ \o <<"open", "fetch">>]]
            /\ session' = [session EXCEPT ![k] = nextSession]
            /\ nextSession' = nextSession + 1
            /\ UNCHANGED closed

\* The response's status line arrives: "if response.status != 200: raise".
DoRecvStatus(c, s) ==
    /\ call[c].pc = "awaitStatus"
    /\ IF s # StatusOK
       THEN /\ \E wait \in BOOLEAN :
                   call' = [call EXCEPT ![c] =
                       Leave([Raised(c, "SearchError", "HTTP status", s)
                                  EXCEPT !.status = s], wait)]
            /\ closed' = Exit(call[c].client)
       ELSE /\ call' = [call EXCEPT ![c] = [@ EXCEPT !.pc = "awaitBody", !.status = s]]
            /\ UNCHANGED closed
    /\ UNCHANGED <<session, nextSession>>

\* aiohttp.ClientError while waiting for the status or for the body.
DoNetworkError(c) ==
    /\ call[c].pc \in {"awaitStatus", "awaitBody"}
    /\ \E wait \in BOOLEAN :
           call' = [call EXCEPT ![c] =
               Leave(Raised(c, "SearchError", "Network error", None), wait)]
    /\ closed' = Exit(call[c].client)
    /\ UNCHANGED <<session, nextSession>>

\* The 30 seconds of the session's ClientTimeout pass while waiting for the
\* status or the body: asyncio.TimeoutError, which is no aiohttp.ClientError.
DoTimeout(c) ==
    /\ call[c].pc \in {"awaitStatus", "awaitBody"}
    /\ \E wait \in BOOLEAN :
           call' = [call EXCEPT ![c] =
               Leave(Raised(c, "TimeoutError", "Timeout", None), wait)]
    /\ closed' = Exit(call[c].client)
    /\ UNCHANGED <<session, nextSession>>

\* await response.text()
DoRecvBody(c, page) ==
    /\ call[c].pc = "awaitBody"
    /\ call' = [call EXCEPT ![c] = [@ EXCEPT !.pc = "structured", !.page = page]]
    /\ UNCHANGED <<session, closed, nextSession>>

\* _parse_search_results, first half: the structured extractor.
DoStructuredAttempt(c) ==
    /\ call[c].pc = "structured"
    /\ LET r == _extract_json_results(call[c].page.json, call[c].result_type)
           ran == [call[c] EXCEPT !.log = @ \o <<"structured">>]
       IN  IF r.exc # "None"
           THEN /\ \E wait \in BOOLEAN :
                       call' = [call EXCEPT ![c] =
                           Leave(Left(ran, r.exc,
                                      Handler(Exc(r.exc, "Extraction", None))), wait)]
                /\ closed' = Exit(call[c].client)
           ELSE /\ call' = [call EXCEPT ![c] =
                        [ran EXCEPT !.json_results = r.recs, !.results = r.recs,
                                    !.pc = IF NeedsFallback(r.recs)
                                           THEN "fallback" ELSE "return"]]
                /\ UNCHANGED closed
    /\ UNCHANGED <<session, nextSession>>

\* _parse_search_results, second half: the fallback extractor.
DoFallbackAttempt(c) ==
    /\ call[c].pc = "fallback"
    /\ LET r == _parse_html_results(call[c].page.html, call[c].result_type)
           ran == [call[c] EXCEPT !.log = @ \o <<"fallback">>]
       IN  IF r.exc # "None"
           THEN /\ \E wait \in BOOLEAN :
                       call' = [call EXCEPT ![c] =
                           Leave(Left(ran, r.exc,
                                      Handler(Exc(r.exc, "Extraction", None))), wait)]
                /\ closed' = Exit(call[c].client)
           ELSE /\ call' = [call EXCEPT ![c] =
                        [ran EXCEPT !.html_results = r.recs,
                                    !.results = @ \o r.recs, !.pc = "return"]]
                /\ UNCHANGED closed
    /\ UNCHANGED <<session, nextSession>>

\* "return results[:max_results]" and the __aexit__ of "async with self".
DoReturn(c) ==
    /\ call[c].pc = "return"
    /\ \E wait \in BOOLEAN :
           call' = [call EXCEPT ![c] =
               Leave([call[c] EXCEPT !.pc = "done", !.outcome = "returned",
                                     !.returned = Truncate(call[c].results, call[c].limit),
                                     !.log = @ \o <<"close">>], wait)]
    /\ closed' = Exit(call[c].client)
    /\ UNCHANGED <<session, nextSession>>

\* "await self.session.close()" is over: __aexit__ returns, and the call
\* returns its list or raises its exception.
DoClosed(c) ==
    /\ call[c].pc = "closing"
    /\ call' = [call EXCEPT ![c] = Resumed(call[c])]
    /\ UNCHANGED <<session, closed, nextSession>>

Start(c, k, q, mr, rt) == DoStart(c, k, q, mr, rt) /\ UNCHANGED <<max_results, cli, wrap, calc>>
RecvStatus(c, s) == DoRecvStatus(c, s) /\ UNCHANGED <<max_results, cli, wrap, calc>>
NetworkError(c) == DoNetworkError(c) /\ UNCHANGED <<max_results, cli, wrap, calc>>
Timeout(c) == DoTimeout(c) /\ UNCHANGED <<max_results, cli, wrap, calc>>
\* The body is one of the pages the server may send.
RecvBody(c, pages) ==
    /\ call[c].pc = "awaitBody"
    /\ \E page \in pages : DoRecvBody(c, page)
    /\ UNCHANGED <<max_results, cli, wrap, calc>>
StructuredAttempt(c) == DoStructuredAttempt(c) /\ UNCHANGED <<max_results, cli, wrap, calc>>
FallbackAttempt(c) == DoFallbackAttempt(c) /\ UNCHANGED <<max_results, cli, wrap, calc>>
Return(c) == DoReturn(c) /\ UNCHANGED <<max_results, cli, wrap, calc>>
Closed(c) == DoClosed(c) /\ UNCHANGED <<max_results, cli, wrap, calc>>

\* One search call on one client, over every page.
Next ==
    \/ \E q \in {<<" ">>, <<"\n">>, <<"a">>}, mr \in MaxResultsArgs, rt \in ResultTypes :
           Start("c1", "k1", q, mr, rt)
    \/ \E s \in Statuses : RecvStatus("c1", s)
    \/ NetworkError("c1")
    \/ Timeout("c1")
    \/ RecvBody("c1", Pages)
    \/ StructuredAttempt("c1")
    \/ FallbackAttempt("c1")
    \/ Return("c1")
    \/ Closed("c1")

Spec == Init /\ [][Next]_vars

\* Two search calls that may overlap, on the same client object or on two.
NextConc ==
    \/ \E q \in Queries : Start("c1", "k1", q, Nothing, "video")
    \/ \E k \in Clients, q \in Queries : Start("c2", k, q, Nothing, "video")
    \/ \E c \in Calls, s \in Statuses : RecvStatus(c, s)
    \/ \E c \in Calls : NetworkError(c)
    \/ \E c \in Calls : Timeout(c)
    \/ \E c \in Calls : RecvBody(c, FewPages)
    \/ \E c \in Calls : StructuredAttempt(c)
    \/ \E c \in Calls : FallbackAttempt(c)
    \/ \E c \in Calls : Return(c)
    \/ \E c \in Calls : Closed(c)

SpecConc == InitDefault /\ [][NextConc]_vars

(***************************************************************************)
(* The command line: main, the command handlers and get_formatter.         *)
(***************************************************************************)
\* the sub-commands of create_parser, and those that search
Subcommands == {"search", "videos", "channels", "playlists", "quota"}
Commands == {"search", "videos", "channels", "playlists"}
\* choices=[...] of every --format argument
FormatChoices == {"table", "json", "csv", "simple"}
\* choices=[...] of --type
TypeChoices == {"video", "channel", "playlist"}
\* the keys of get_formatter's registry
Registered == {"table", "json", "csv", "simple", "ytdlp", "ytdlpa", "ytdlpv"}
\* the format names a run asks for
FormatNames == {"table", "json", "ytdlp", "xml"}

\* The options of a sub-parser that a run of the model may give.
Options(command) ==
    CASE command = "search" -> {"max_results", "type", "format", "ytdlpa", "ytdlpv"}
      [] command \in {"videos", "playlists"} -> {"max_results", "format", "ytdlpa", "ytdlpv"}
      [] command = "channels" -> {"max_results", "format"}
      [] OTHER -> {}

\* A command line is [command, query, max_results, type, format, ytdlpa,
\* ytdlpv]: the sub-command (Nothing when there is none), the query words
\* joined by a blank (Nothing when there are none), the value of
\* --max-results, --type and --format (Nothing when the option is not
\* given) and whether --ytdlpa and --ytdlpv are given.  These are the
\* options it gives.
GivenOptions(argv) ==
    {o \in {"max_results", "type", "format"} : argv[o] # Nothing}
        \cup {o \in {"ytdlpa", "ytdlpv"} : argv[o]}

\* parser.parse_args() ends the run with a usage message (exit status 2):
\* an option without a sub-command, a word that is no sub-command, an
\* option the sub-parser does not declare, a value outside the choices of
\* --format or --type, a search without query words, words after "quota".
UsageError(argv) ==
    IF argv.command = Nothing THEN GivenOptions(argv) # {}
    ELSE IF argv.command[1] \notin Subcommands THEN TRUE
    ELSE \/ ~(GivenOptions(argv) \subseteq Options(argv.command[1]))
         \/ argv.format # Nothing /\ argv.format[1] \notin FormatChoices
         \/ argv.type # Nothing /\ argv.type[1] \notin TypeChoices
         \/ (argv.command[1] = "quota") # (argv.query = Nothing)

\* The namespace parse_args returns: the defaults for what is not given.
Namespace(argv) ==
    [command |-> argv.command,
     query |-> IF argv.query = Nothing THEN <<>> ELSE argv.query[1],
     max_results |-> IF argv.max_results = Nothing THEN Some(CliMaxResults)
                     ELSE argv.max_results,
     type |-> IF argv.type = Nothing THEN "video" ELSE argv.type[1],
     format |-> IF argv.format = Nothing THEN "table" ELSE argv.format[1],
     ytdlpa |-> argv.ytdlpa, ytdlpv |-> argv.ytdlpv]

\* The run that holds the namespace args.
Entered(entry, args) ==
    [cli EXCEPT !.entry = entry, !.command = args.command, !.query = args.query,
                !.max_results = args.max_results, !.type = args.type,
                !.format = args.format, !.ytdlpa = args.ytdlpa,
                !.ytdlpv = args.ytdlpv]

\* main behind parse_args: the help text when "not args.command" (None or
\* the empty string), the handler of the command, and "Unknown command"
\* (exit status 1) for any other.
Dispatched(run) ==
    IF run.command = Nothing \/ run.command[1] = ""
    THEN [run EXCEPT !.pc = "done", !.outcome = "help"]
    ELSE IF run.command[1] \in Commands
    THEN [run EXCEPT !.pc = "handler", !.handler = run.command[1]]
    ELSE IF run.command[1] = "quota"
    THEN [run EXCEPT !.pc = "done", !.handler = "quota", !.outcome = "quota"]
    ELSE [run EXCEPT !.pc = "done", !.outcome = "unknown-command"]

\* the result_type a handler passes to the client: args.type in
\* handle_search, the kind of the wrapper it calls in the others
HandlerType(run) ==
    CASE run.handler = "search" -> run.type
      [] run.handler = "videos" -> "video"
      [] run.handler = "channels" -> "channel"
      [] OTHER -> "playlist"

\* "format_name = args.format; if args.ytdlpa: ...; elif args.ytdlpv: ..."
\* (handle_channels reads args.format alone)
FormatName(c) ==
    IF c.handler = "channels" THEN c.format
    ELSE IF c.ytdlpa THEN "ytdlpa"
    ELSE IF c.ytdlpv THEN "ytdlpv"
    ELSE c.format

\* main: parse_args, the check of args.command and the dispatch on it.
Main(argv) ==
    /\ cli.pc = "off"
    /\ cli' = IF UsageError(argv)
              THEN [cli EXCEPT !.entry = "main", !.pc = "done", !.outcome = "usage"]
              ELSE Dispatched(Entered("main", Namespace(argv)))
    /\ UNCHANGED <<call, session, max_results, closed, nextSession, wrap, calc>>

\* A handler called with an argument namespace its caller built;
\* handle_quota prints its two lines and returns.
CallHandler(handler, args) ==
    /\ cli.pc = "off"
    /\ cli' = IF handler = "quota"
              THEN [Entered("handler", args) EXCEPT
                       !.handler = handler, !.pc = "done", !.outcome = "quota"]
              ELSE [Entered("handler", args) EXCEPT
                       !.handler = handler, !.pc = "handler"]
    /\ UNCHANGED <<call, session, max_results, closed, nextSession, wrap, calc>>

\* handle_*: the first statement of the try block, client.search(...) or
\* the wrapper of the kind, with " ".join(args.query) and
\* args.max_results.
HandlerSearch ==
    /\ cli.pc = "handler"
    /\ DoStart("c1", "k1", cli.query, cli.max_results, HandlerType(cli))
    /\ cli' = [cli EXCEPT !.pc = "searching"]
    /\ UNCHANGED <<max_results, wrap, calc>>

\* get_formatter: a name outside the registry raises ValueError.
get_formatter(name) == IF name \in Registered THEN "formatter" ELSE "ValueError"

\* handle_*: after the search returned or raised.  A SearchError goes to
\* "except SearchError"; otherwise the renderer is looked up, and its
\* ValueError goes to "except Exception".
HandlerFinish ==
    /\ cli.pc = "searching"
    /\ call["c1"].pc = "done"
    /\ cli' = IF call["c1"].outcome = "error"
              THEN [cli EXCEPT !.pc = "done", !.outcome = "search-error"]
              ELSE [cli EXCEPT !.pc = "done", !.lookups = @ + 1,
                               !.fetchesAtLookup = call["c1"].fetches,
                               !.outcome =
                                   IF get_formatter(FormatName(cli)) = "ValueError"
                                   THEN "unknown-format" ELSE "printed"]
    /\ UNCHANGED <<call, session, max_results, closed, nextSession, wrap, calc>>

\* The queries of the command-line runs: 'a' and ' '.
CliQueries == {<<"a">>, <<" ">>}
\* The values of --max-results and of args.max_results.
CliLimits == {Nothing, Some(1)}

\* The command lines of the runs.  (Without a sub-command there are no
\* query words: the first word is the sub-command.)
Argvs ==
    {argv \in [command : {Nothing, Some("bogus")} \cup {Some(c) : c \in Subcommands},
               query : {Nothing} \cup {Some(q) : q \in CliQueries},
               max_results : CliLimits,
               type : {Nothing, Some("channel"), Some("all")},
               format : {Nothing, Some("json"), Some("xml")},
               ytdlpa : BOOLEAN, ytdlpv : BOOLEAN] :
         argv.command = Nothing => argv.query = Nothing}

\* The namespaces a caller of a handler builds.
Namespaces ==
    [command : {Nothing}, query : CliQueries, max_results : CliLimits,
     type : {"video", "all"}, format : FormatNames,
     ytdlpa : BOOLEAN, ytdlpv : BOOLEAN]

NextCli ==
    \/ \E argv \in Argvs : Main(argv)
    \/ \E handler \in Subcommands, args \in Namespaces : CallHandler(handler, args)
    \/ HandlerSearch
    \/ \E s \in Statuses : RecvStatus("c1", s)
    \/ NetworkError("c1")
    \/ RecvBody("c1", FewPages)
    \/ StructuredAttempt("c1")
    \/ FallbackAttempt("c1")
    \/ Return("c1")
    \/ Closed("c1")
    \/ HandlerFinish

SpecCli == InitDefault /\ [][NextCli]_vars

(***************************************************************************)
(* search_videos, search_channels, search_playlists: a search with the     *)
(* result type fixed, then the isinstance filter on what it returned.      *)
(***************************************************************************)
Kinds == {"video", "channel", "playlist"}

\* [r for r in results if isinstance(r, VideoResult)]
OfKind(results, kind) == SelectSeq(results, LAMBDA r : r.kind = kind)

\* "results = self.search(query, max_results, result_type=kind)", up to the
\* first suspension of the search.
SearchKind(kind, q, mr) ==
    /\ wrap.pc = "off"
    /\ DoStart("c1", "k1", q, mr, kind)
    /\ wrap' = [wrap EXCEPT !.pc = "searching", !.kind = kind]
    /\ UNCHANGED <<max_results, cli, calc>>

\* The search has ended: its SearchError goes on to the caller, its list is
\* filtered and returned.
KindReturn ==
    /\ wrap.pc = "searching"
    /\ call["c1"].pc = "done"
    /\ wrap' = IF call["c1"].outcome = "error"
               THEN [wrap EXCEPT !.pc = "done", !.outcome = "error"]
               ELSE [wrap EXCEPT !.pc = "done", !.outcome = "returned",
                                 !.out = OfKind(call["c1"].returned, wrap.kind)]
    /\ UNCHANGED <<call, session, max_results, closed, nextSession, cli, calc>>

NextKind ==
    \/ \E kind \in Kinds, q \in {<<" ">>, <<"a">>}, mr \in MaxResultsArgs :
           SearchKind(kind, q, mr)
    \/ \E s \in Statuses : RecvStatus("c1", s)
    \/ NetworkError("c1")
    \/ RecvBody("c1", Pages)
    \/ StructuredAttempt("c1")
    \/ FallbackAttempt("c1")
    \/ Return("c1")
    \/ Closed("c1")
    \/ KindReturn

SpecKind == Init /\ [][NextKind]_vars

(***************************************************************************)
(* The helpers applied to one argument each.                               *)
(***************************************************************************)
Ready(fn, arg) == [pc |-> "ready", fn |-> fn, arg |-> arg, res |-> <<>>]
Applied(res) == [calc EXCEPT !.pc = "done", !.res = res]
Idle == UNCHANGED <<call, session, max_results, closed, nextSession, cli, wrap>>

\* The texts with counts: every short text over CountChars, and longer ones.
CountChars == {"1", "5", ".", ",", "k", "-", " "}
CountExamples ==
    {<<"2", ".", "5", "M", " ", "v", "i", "e", "w", "s">>,    \* 2.5M views
     <<"1", ",", "2", "3", "4", ",", "5", "6", "7">>,    \* 1,234,567
     <<"2", ".", "5", "M">>,    \* 2.5M
     <<"1", ".", "2", "M", " ", "s", "u", "b", "s", "c", "r", "i", "b", "e", "r", "s">>,    \* 1.2M subscribers
     <<"1", ".", "5">>,    \* 1.5
     <<"1", "B">>,    \* 1B
     <<"1", ".", "5", "b">>,    \* 1.5b
     <<"2", "m">>,    \* 2m
     <<"1", ".", "2", "3", "4", "5", "K">>,    \* 1.2345K
     <<"1", ".", "9", "9", "9", "9", "K">>,    \* 1.9999K
     <<".", "0", "0", "1", "5", "K">>,    \* .0015K
     <<"-", ".", "0", "0", "1", "5", "K">>,    \* -.0015K
     <<"i", "n", "f", "K">>,    \* infK
     <<"-", "I", "n", "f", "M">>,    \* -InfM
     <<"n", "a", "n", "K">>,    \* nanK
     <<"K">>,    \* K
     <<"1", "K", "K">>,    \* 1KK
     <<"+", "5">>,    \* +5
     <<"4", ".", "1", "M", " ", "v", "i", "e", "w", "s">>,    \* 4.1M views
     <<"1", ".", "1", "5", "K">>,    \* 1.15K
     <<"1", "_", "0", "K">>,    \* 1_0K
     <<"1", "_", "0">>,    \* 1_0
     <<"1", "e", "3", "K">>,    \* 1e3K
     <<"\n", "5", "\n">>,    \* a 5 between line breaks
     <<"\n", "1", ".", "5", "\n", "K">>,    \* 1.5 between line breaks, K
     <<"5", " ", "v", "i", "e", "w", "s">>}    \* 5 views
CountTexts == SeqsUpTo(CountChars, MaxTextLen) \cup CountExamples

InitCount == InitClient /\ calc \in {Ready("_parse_view_count", t) : t \in CountTexts}

ParseViewCount ==
    /\ calc.pc = "ready"
    /\ calc.fn = "_parse_view_count"
    /\ calc' = Applied(_parse_view_count(calc.arg))
    /\ Idle

NextCount == ParseViewCount

SpecCount == InitCount /\ [][NextCount]_vars

\* The texts with durations.
DurationChars == {"1", "5", ":", "a", " ", "-"}
DurationExamples ==
    {<<"1", "0", ":", "3", "0">>,    \* 10:30
     <<"1", ":", "0", "2", ":", "0", "3">>,    \* 1:02:03
     <<"a", "b", "c">>,    \* abc
     <<"1", ":", "2", ":", "3", ":", "4">>,    \* 1:2:3:4
     <<"1", ":", "2", ":">>,    \* 1:2:
     <<"9", "9", ":", "5", "9", ":", "5", "9">>,    \* 99:59:59
     <<"+", "1", ":", "+", "2">>,    \* +1:+2
     <<"1", ".", "5", ":", "0", "0">>}    \* 1.5:00
DurationTexts == SeqsUpTo(DurationChars, MaxTextLen) \cup DurationExamples

InitDuration ==
    InitClient /\ calc \in {Ready("_parse_duration_to_seconds", t) : t \in DurationTexts}

ParseDuration ==
    /\ calc.pc = "ready"
    /\ calc.fn = "_parse_duration_to_seconds"
    /\ calc' = Applied(_parse_duration_to_seconds(calc.arg))
    /\ Idle

NextDuration == ParseDuration

SpecDuration == InitDuration /\ [][NextDuration]_vars

\* The texts with a count in a phrase.
PhraseChars == {"1", "5", "a", " ", ","}
PhraseExamples ==
    {<<"1", "2", "3", " ", "v", "i", "d", "e", "o", "s">>,    \* 123 videos
     <<"n", "o", " ", "n", "u", "m", "b", "e", "r", " ", "h", "e", "r", "e">>,    \* no number here
     <<"1", "2", ",", "3", "4", "5", " ", "v", "i", "d", "e", "o", "s">>,    \* 12,345 videos
     <<"a", "1", "b", "2", "2">>,    \* a1b22
     <<"0", "0", "7">>}    \* 007
PhraseTexts == SeqsUpTo(PhraseChars, MaxTextLen) \cup PhraseExamples

InitPhrase == InitClient /\ calc \in {Ready("_parse_video_count", t) : t \in PhraseTexts}

ParseVideoCount ==
    /\ calc.pc = "ready"
    /\ calc.fn = "_parse_video_count"
    /\ calc' = Applied(_parse_video_count(calc.arg))
    /\ Idle

NextPhrase == ParseVideoCount

SpecPhrase == InitPhrase /\ [][NextPhrase]_vars

(***************************************************************************)
(* _build_search_url.  The URL is [base, query, params]: params is the    *)
(* list of <<name, value>> pairs appended after the query.  The value of   *)
(* "sp" is the list of filter tokens the parameter is made of.             *)
(***************************************************************************)
ResultsBase == "https://www.youtube.com/results?search_query="

\* The characters quote() never escapes: letters, digits and "_.-~".
AlwaysSafe == Letters \cup DigitChars \cup {"_", ".", "-", "~"}

\* ch.encode('utf-8') for a character up to U+00FF: one byte, or two.
Utf8(ch) ==
    IF Ord(ch) < 128 THEN <<Ord(ch)>>
    ELSE <<192 + (Ord(ch) \div 64), 128 + (Ord(ch) % 64)>>

\* '%XX' of a byte
PercentByte(b) == <<"%", HexUpper[(b \div 16) + 1], HexUpper[(b % 16) + 1]>>

RECURSIVE PercentBytes(_)
PercentBytes(bytes) ==
    IF bytes = <<>> THEN <<>>
    ELSE PercentByte(Head(bytes)) \o PercentBytes(Tail(bytes))

\* quote_plus of one character: a space becomes '+', a safe character
\* stays, every other one is the '%XX' of each of its UTF-8 bytes.
QuotedChar(ch) ==
    IF ch = " " THEN <<"+">>
    ELSE IF ch \in AlwaysSafe THEN <<ch>>
    ELSE PercentBytes(Utf8(ch))

RECURSIVE QuotePlus(_)
\* quote_plus(query)
QuotePlus(query) ==
    IF query = <<>> THEN <<>>
    ELSE QuotedChar(Head(query)) \o QuotePlus(Tail(query))

TypeFilter(result_type) ==
    CASE result_type = "video" -> <<"EgIQAQ%253D%253D">>
      [] result_type = "channel" -> <<"EgIQAg%253D%253D">>
      [] result_type = "playlist" -> <<"EgIQAw%253D%253D">>
      [] OTHER -> <<>>

OrderFilter(order) ==
    CASE order = "date" -> <<"CAI%253D">>
      [] order = "viewCount" -> <<"CAM%253D">>
      [] order = "rating" -> <<"CAE%253D">>
      [] OTHER -> <<>>

\* duration is an Optional[str]
DurationFilter(duration) ==
    CASE duration = Some("short") -> <<"EgIYAQ%253D%253D">>
      [] duration = Some("medium") -> <<"EgIYAw%253D%253D">>
      [] duration = Some("long") -> <<"EgIYAg%253D%253D">>
      [] OTHER -> <<>>

\* "sp_param = filters[0]"
FirstOf(filters) == SubSeq(filters, 1, 1)

\* "if channel_id:" and "if region_code:" on an Optional[str]: None and ''
\* add nothing.
Given(opt) == opt # Nothing /\ opt[1] # ""

_build_search_url(query, result_type, order, duration, region_code, channel_id) ==
    LET filters == TypeFilter(result_type) \o OrderFilter(order) \o DurationFilter(duration)
    IN  [base |-> ResultsBase,
         query |-> QuotePlus(query),
         params |->
             (IF filters # <<>> THEN <<<<"sp", FirstOf(filters)>>>> ELSE <<>>)
             \o (IF Given(channel_id) THEN <<<<"channel", channel_id[1]>>>> ELSE <<>>)
             \o (IF Given(region_code) THEN <<<<"region", region_code[1]>>>> ELSE <<>>)]

Orders == {"relevance", "date", "viewCount", "rating"}
Durations == {Nothing, Some(""), Some("short"), Some("medium"), Some("long")}
RegionCodes == {Nothing, Some(""), Some("US")}
ChannelIds == {Nothing, Some(""), Some("UC123")}
\* 'a a', 'c++', 'é~/' and 'a&b=1'
UrlQueries ==
    {<<"a", " ", "a">>, <<"c", "+", "+">>, <<"é", "~", "/">>,
     <<"a", "&", "b", "=", "1">>}

UrlArgs ==
    [query : UrlQueries, result_type : ResultTypes, order : Orders,
     duration : Durations, region_code : RegionCodes, channel_id : ChannelIds]

InitUrl == InitClient /\ calc \in {Ready("_build_search_url", a) : a \in UrlArgs}

BuildSearchUrl ==
    /\ calc.pc = "ready"
    /\ calc.fn = "_build_search_url"
    /\ calc' = Applied(_build_search_url(calc.arg.query, calc.arg.result_type,
                                         calc.arg.order, calc.arg.duration,
                                         calc.arg.region_code, calc.arg.channel_id))
    /\ Idle

NextUrl == BuildSearchUrl

SpecUrl == InitUrl /\ [][NextUrl]_vars

(***************************************************************************)
(* _parse_json_item on one item: a renderer of each kind with any subset  *)
(* of its keys.                                                            *)
(***************************************************************************)
KindMarker(kind) ==
    CASE kind = "video" -> "videoRenderer"
      [] kind = "channel" -> "channelRenderer"
      [] OTHER -> "playlistRenderer"

\* The keys _parse_json_item reads from the renderer of each kind, besides
\* its id.
FieldKeys(kind) ==
    CASE kind = "video" ->
             {"title", "ownerText", "lengthText", "viewCountText", "thumbnail"}
      [] kind = "channel" ->
             {"title", "descriptionSnippet", "subscriberCountText", "thumbnail"}
      [] OTHER -> {"title", "ownerText", "videoCountText", "thumbnails"}

Owner == <<"T", "o", "m">>
ThumbUrl == "https://i.ytimg.com/vi/abc123/hq720.jpg"

\* The value a key has when the renderer carries it.
FieldValue(key) ==
    CASE key = "title" -> SimpleText(Intro)
      [] key = "ownerText" -> Runs(<<TextRun(Owner)>>)
      [] key = "lengthText" -> SimpleText(<<"1", "0", ":", "3", "0">>)
      [] key = "viewCountText" ->
             SimpleText(<<"2", ".", "5", "M", " ", "v", "i", "e", "w", "s">>)
      [] key = "descriptionSnippet" ->
             Runs(<<TextRun(<<"a">>), TextRun(<<"b">>)>>)
      [] key = "subscriberCountText" ->
             SimpleText(<<"1", ".", "2", "M", " ", "s", "u", "b", "s", "c", "r",
                          "i", "b", "e", "r", "s">>)
      [] key = "videoCountText" ->
             SimpleText(<<"1", "2", " ", "v", "i", "d", "e", "o", "s">>)
      [] key = "thumbnail" -> Thumbnail(TRUE, <<Some(ThumbUrl)>>)
      [] OTHER -> <<Thumbnail(TRUE, <<Some(ThumbUrl)>>)>>      \* "thumbnails"

\* Every renderer of the kind, asked for with every result type.
ItemsOf(kind) ==
    {[item |-> Renderer({KindMarker(kind)}, id, [key \in present |-> FieldValue(key)]),
      result_type |-> result_type] :
         id \in Ids, present \in SUBSET FieldKeys(kind),
         result_type \in ResultTypes}

LowUrl == "https://i.ytimg.com/vi/abc123/default.jpg"

\* Thumbnail objects: with and without the list, the list with up to
\* MaxThumbs entries, each with a url or without one.
Thumbnails ==
    {Thumbnail(has, urls) :
         has \in BOOLEAN,
         urls \in SeqsUpTo({Some(LowUrl), Some(ThumbUrl), Nothing}, MaxThumbs)}

\* What a renderer of the kind holds for its thumbnail: a video and a
\* channel one thumbnail object under "thumbnail", a playlist a list of
\* them under "thumbnails".
ThumbFields(kind) ==
    IF kind = "playlist"
    THEN {[title |-> SimpleText(Intro), thumbnails |-> list] :
              list \in {<<>>} \cup {<<t>> : t \in Thumbnails}
                          \cup {<<t, Thumbnail(TRUE, <<Some(LowUrl)>>)>> : t \in Thumbnails}}
    ELSE {[title |-> SimpleText(Intro), thumbnail |-> t] : t \in Thumbnails}

ThumbItemsOf(kind) ==
    {[item |-> Renderer({KindMarker(kind)}, Abc123, fields), result_type |-> kind] :
         fields \in ThumbFields(kind)}

\* Renderers whose display texts carry a sign.
SignedItemsOf(kind) ==
    {[item |-> Renderer({KindMarker(kind)}, Abc123,
                        [title |-> SimpleText(Intro), viewCountText |-> SimpleText(count),
                         subscriberCountText |-> SimpleText(count),
                         videoCountText |-> SimpleText(count),
                         lengthText |-> SimpleText(length)]),
      result_type |-> kind] :
         count \in {<<"-", "5", " ", "v", "i", "e", "w", "s">>, <<"5", " ", "v", "i", "e", "w", "s">>, <<"-", "1", ".", "5", "K">>},
         length \in {<<"-", "1", ":", "3", "0">>, <<"1", "0", ":", "3", "0">>}}

ItemArgs ==
    UNION {ItemsOf(kind) \cup ThumbItemsOf(kind) \cup SignedItemsOf(kind) : kind \in Kinds}

InitItem == InitClient /\ calc \in {Ready("_parse_json_item", a) : a \in ItemArgs}

ParseJsonItem ==
    /\ calc.pc = "ready"
    /\ calc.fn = "_parse_json_item"
    /\ calc' = Applied(_parse_json_item(calc.arg.item, calc.arg.result_type))
    /\ Idle

NextItem == ParseJsonItem

SpecItem == InitItem /\ [][NextItem]_vars

(***************************************************************************)
(* _extract_text on one JSON value.                                        *)
(***************************************************************************)
RunTexts == {<<>>, <<"a">>, <<"b", "c">>}
RunValues == {TextRun(t) : t \in RunTexts} \cup {BareRun}

\* Values whose "runs" is no list of mappings with a str under "text": a
\* number, a boolean, null, a mapping ({} and {"text": "x"}), a str ("" and
\* "ab"), a list with a string in it, and runs whose "text" is a number.
IllTypedRuns ==
    {TextObj("dict", <<>>, {"runs"}, "num", <<>>),
     TextObj("dict", <<>>, {"runs"}, "bool", <<>>),
     TextObj("dict", <<>>, {"runs"}, "null", <<>>),
     Runs(<<TextRun(<<"a">>), Run("str", FALSE, <<>>)>>),
     Runs(<<RunOf("num")>>),
     Runs(<<TextRun(<<"a">>), RunOf("null")>>),
     Runs(<<RunOf("num"), Run("str", FALSE, <<>>)>>)}
        \cup {TextObj("dict", <<>>, {"runs"}, rtype, Strs(n)) :
                  rtype \in {"dict", "str"}, n \in 0..MaxRuns}

TextValues ==
    {Str(t) : t \in RunTexts}
    \cup {SimpleText(t) : t \in RunTexts}
    \cup {Runs(runs) : runs \in SeqsUpTo(RunValues, MaxRuns)}
    \cup {Both(t, <<TextRun(<<"a">>)>>) : t \in RunTexts}
    \cup {NoText(type) : type \in {"dict", "list", "num", "null"}}
    \cup IllTypedRuns

InitText == InitClient /\ calc \in {Ready("_extract_text", v) : v \in TextValues}

ExtractText ==
    /\ calc.pc = "ready"
    /\ calc.fn = "_extract_text"
    /\ calc' = Applied(_extract_text(calc.arg))
    /\ Idle

NextText == ExtractText

SpecText == InitText /\ [][NextText]_vars

(***************************************************************************)
(* The container parsers on one container.                                 *)
(***************************************************************************)
HrefExamples ==
    {<<"/", "w", "a", "t", "c", "h", "?", "v", "=", "x", "y", "z", "7", "8", "9", "&", "t", "=", "1">>,
     <<"/", "w", "a", "t", "c", "h", "?", "v", "=">>,
     <<"/", "w", "a", "t", "c", "h", "?", "v", "=", "&", "l", "i", "s", "t", "=", "a", "b", "c", "1", "2", "3">>,
     <<"w", "a", "t", "c", "h", "?", "v", "=", "&", "w", "a", "t", "c", "h", "?", "v", "=", "a", "b", "c", "1", "2", "3">>,
     <<"/", "p", "l", "a", "y", "l", "i", "s", "t", "?", "l", "i", "s", "t", "=", "x", "y", "z", "7", "8", "9">>,
     <<"/", "c", "h", "a", "n", "n", "e", "l", "/", "x", "y", "z", "7", "8", "9">>,
     <<"/", "@", "a", "b", "c", "1", "2", "3">>,
     <<"/", "c", "/", "a", "b", "c", "1", "2", "3">>,
     <<"/", "a", "b", "o", "u", "t">>,
     <<"h", "t", "t", "p", "s", ":", "/", "/", "w", "w", "w", ".", "y", "o", "u", "t", "u", "b", "e", ".", "c", "o", "m", "/", "w", "a", "t", "c", "h", "?", "v", "=", "a", "b", "c", "1", "2", "3", "&", "l", "i", "s", "t", "=", "x", "y", "z", "7", "8", "9">>,
     <<"/", "/", "w", "w", "w", ".", "y", "o", "u", "t", "u", "b", "e", ".", "c", "o", "m", "/", "c", "h", "a", "n", "n", "e", "l", "/", "x", "y", "z", "7", "8", "9">>,
     <<"c", "/", "a", "b", "c", "1", "2", "3">>}

Blank == <<" ", " ">>
PaddedIntro == <<" ", "I", "n", "t", "r", "o", " ">>
PaddedOwner == <<" ", "T", "o", "m", "\t">>
Length == <<"1", "0", ":", "3", "0">>
MinusLength == <<"-", "1", ":", "3", "0">>
SubscriberText == <<"1", ".", "2", "M", " ", "s", "u", "b", "s", "c", "r", "i", "b", "e", "r", "s">>
RelativeSrc == <<"/", "/", "i", ".", "y", "t", "i", "m", "g", ".", "c", "o", "m", "/", "a", ".", "j", "p", "g">>
AbsoluteSrc == <<"h", "t", "t", "p", "s", ":", "/", "/", "i", ".", "y", "t", "i", "m", "g", ".", "c", "o", "m", "/", "b", ".", "j", "p", "g">>

ImgAttrs == {Nothing, Some(<<>>), Some(RelativeSrc), Some(AbsoluteSrc)}
Imgs == {Nothing} \cup {Some(Img(src, dataSrc)) : src \in ImgAttrs, dataSrc \in ImgAttrs}

\* Containers of the kind that differ in what carries the id.
IdContainers(kind) ==
    {Container(kind, dataId, hrefs, Fallback, Intro, FALSE) :
         dataId \in {<<>>, Abc123}, hrefs \in SeqsUpTo(HrefExamples, MaxAnchors)}

\* Anchors that give a container of every kind its id.
AllHrefs == <<WatchHref, ChannelHref, ListHref>>

\* '\n' and '\n  Intro\n'
LineBreak == <<"\n">>
LinedIntro == <<"\n", " ", " ">> \o Intro \o <<"\n">>

\* Containers of the kind that differ in their title or name element.
TitleContainers(kind) ==
    {Container(kind, Xyz789, AllHrefs, titleAttr, text, raises) :
         titleAttr \in {<<>>, Fallback, Blank},
         text \in {<<>>, Intro, PaddedIntro, Blank, LineBreak, LinedIntro},
         raises \in BOOLEAN}

\* Containers of the kind that differ in their secondary elements.
FieldContainers(kind) ==
    {[Container(kind, Xyz789, AllHrefs, Fallback, Intro, FALSE)
         EXCEPT !.channel = channel, !.duration = duration,
                !.description = description, !.count = count, !.img = img] :
         channel \in {Nothing, Some(<<>>), Some(PaddedOwner)},
         duration \in {Nothing, Some(Length), Some(MinusLength)},
         description \in {Nothing, Some(PaddedIntro)},
         count \in {Nothing, Some(SubscriberText)},
         img \in Imgs}

\* Hrefs of a channel anchor that urljoin does more to than put the site
\* before them: ' /channel/x', '///c/x', 'https:/c/x',
\* 'HTTPS://h/c/x', 'ftp://h/c/x', '/a/../c/./x', 'a/c/x/..', '/c/x;p?q#f',
\* '?/c/', '//[::1]/c/x', '//[x/c/x' and '//[1.2.3.4]/c/x'.
JoinHrefs ==
    {<<" ", "/", "c", "h", "a", "n", "n", "e", "l", "/", "x">>,
     <<"/", "/", "/", "c", "/", "x">>,
     <<"h", "t", "t", "p", "s", ":", "/", "c", "/", "x">>,
     <<"H", "T", "T", "P", "S", ":", "/", "/", "h", "/", "c", "/", "x">>,
     <<"f", "t", "p", ":", "/", "/", "h", "/", "c", "/", "x">>,
     <<"/", "a", "/", ".", ".", "/", "c", "/", ".", "/", "x">>,
     <<"a", "/", "c", "/", "x", "/", ".", ".">>,
     <<"/", "c", "/", "x", ";", "p", "?", "q", "#", "f">>,
     <<"?", "/", "c", "/">>,
     <<"/", "/", "[", ":", ":", "1", "]", "/", "c", "/", "x">>,
     <<"/", "/", "[", "x", "/", "c", "/", "x">>,
     <<"/", "/", "[", "1", ".", "2", ".", "3", ".", "4", "]", "/", "c", "/", "x">>}

\* Channel containers that differ in the href of their anchor.
JoinContainers ==
    {Container("channel", <<>>, <<href>>, <<>>, Intro, FALSE) : href \in JoinHrefs}

ContainerArgs ==
    UNION {IdContainers(kind) \cup TitleContainers(kind) \cup FieldContainers(kind) :
               kind \in Kinds}
        \cup JoinContainers

InitContainer == InitClient /\ calc \in {Ready("ParseContainer", c) : c \in ContainerArgs}

\* _parse_video_container, _parse_channel_container or
\* _parse_playlist_container, as _parse_html_results calls them.
ApplyParseContainer ==
    /\ calc.pc = "ready"
    /\ calc.fn = "ParseContainer"
    /\ calc' = Applied(ParseContainer(calc.arg))
    /\ Idle

NextContainer == ApplyParseContainer

SpecContainer == InitContainer /\ [][NextContainer]_vars

(***************************************************************************)
(* The output formatters (formatters.py).                                  *)
(*                                                                         *)
(* A formatted text is a sequence of pieces, each a character or a fixed   *)
(* string of the formatter; the text is the pieces one after the other.    *)
(* A text field of a record is a sequence of characters, a url the pair of *)
(* its fixed prefix and the rest.  The output file is the list of the      *)
(* texts written to it, <<>> when nothing was written after open(.., 'w').  *)
(***************************************************************************)
RECURSIVE NatText(_)
NatText(n) ==
    IF n < 10 THEN <<DigitSeq[n + 1]>>
    ELSE NatText(n \div 10) \o <<DigitSeq[(n % 10) + 1]>>

\* str(n) of an int
IntText(n) == IF n < 0 THEN <<"-">> \o NatText(-n) ELSE NatText(n)

UrlText(url) == <<url[1]>> \o url[2]

\* "if result.duration:" and the like, on an Optional[str]
TruthyText(opt) == opt # Nothing /\ opt[1] # <<>>
\* "if result.view_count:" and the like, on an Optional[int]
TruthyInt(opt) == opt # Nothing /\ opt[1] # 0

RECURSIVE NatDigits(_)
\* The decimal digits of a natural number, <<>> for 0.
NatDigits(n) == IF n = 0 THEN <<>> ELSE NatDigits(n \div 10) \o <<n % 10>>

\* The quotient d of a division by b rounded to the nearest integer, a tie
\* to the even one.
HalfEven(d, b) ==
    IF BigLess(b, BigTwice(d.r)) \/ (BigTwice(d.r) = b /\ Odd(d.q))
    THEN BigInc(d.q)
    ELSE d.q

\* The tenths that "%.1f" shows of a finite float x >= 0: ten times its
\* exact value m * 2^e, rounded to the nearest integer.
TenthsOf(x) ==
    IF x.m = <<>> THEN <<>>
    ELSE IF x.e >= 0 THEN Pow2Times(x.m \o <<0>>, x.e)
    ELSE HalfEven(BigDivMod(x.m \o <<0>>, Pow2Times(<<1>>, 0 - x.e)),
                  Pow2Times(<<1>>, 0 - x.e))

\* The tenths f"{count/unit:.1f}" shows: count/unit is the float nearest to
\* the quotient, and the format rounds that float.
Tenths(count, unit) == TenthsOf(Ratio(NatDigits(count), NatDigits(unit), FALSE))

\* The text of a number of tenths, with the suffix
OneDecimal(tenths, suffix) ==
    (IF Len(tenths) < 2 THEN <<"0">>
     ELSE [i \in 1..(Len(tenths) - 1) |-> DigitSeq[tenths[i] + 1]])
        \o <<".", IF tenths = <<>> THEN "0" ELSE DigitSeq[tenths[Len(tenths)] + 1],
             suffix>>

_format_count(count) ==
    IF count >= 1000000000 THEN OneDecimal(Tenths(count, 1000000000), "B")
    ELSE IF count >= 1000000 THEN OneDecimal(Tenths(count, 1000000), "M")
    ELSE IF count >= 1000 THEN OneDecimal(Tenths(count, 1000), "K")
    ELSE IntText(count)

\* f"{description[:100]}{'...' if len(description) > 100 else ''}"
Snippet(description) ==
    IF Len(description) > 100 THEN SubSeq(description, 1, 100) \o <<"...">>
    ELSE description

\* The last line of a table entry: the URL for "table", the yt-dlp command
\* (the bare URL for a channel) for "ytdlpa" and "ytdlpv".
UrlLine(r, style) ==
    IF style = "table" THEN <<"   URL: ">> \o UrlText(r.url) \o <<"\n">>
    ELSE IF r.kind = "channel" THEN <<"   ">> \o UrlText(r.url) \o <<"\n">>
    ELSE IF style = "ytdlpa"
    THEN <<"   yt-dlp -x --audio-format mp3 '">> \o UrlText(r.url) \o <<"'\n">>
    ELSE <<"   yt-dlp '">> \o UrlText(r.url) \o <<"'\n">>

\* The lines of one entry of TableFormatter and YtdlpTableFormatter.
Entry(i, r, style) ==
    NatText(i) \o <<". ">> \o r.title \o <<"\n">>
        \o (IF r.kind = "channel"
            THEN (IF TruthyText(r.description)
                  THEN <<"   Description: ">> \o Snippet(r.description[1]) \o <<"\n">>
                  ELSE <<>>)
                 \o (IF TruthyInt(r.subscriber_count)
                     THEN <<"   Subscribers: ">>
                              \o _format_count(r.subscriber_count[1]) \o <<"\n">>
                     ELSE <<>>)
            ELSE <<"   Channel: ">> \o r.channel_title \o <<"\n">>
                 \o (IF r.kind = "video" /\ TruthyText(r.duration)
                     THEN <<"   Duration: ">> \o r.duration[1] \o <<"\n">>
                     ELSE <<>>)
                 \o (IF r.kind = "video" /\ TruthyInt(r.view_count)
                     THEN <<"   Views: ">> \o _format_count(r.view_count[1]) \o <<"\n">>
                     ELSE <<>>)
                 \o (IF r.kind = "playlist" /\ TruthyInt(r.video_count)
                     THEN <<"   Videos: ">> \o IntText(r.video_count[1]) \o <<"\n">>
                     ELSE <<>>))
        \o UrlLine(r, style)

RECURSIVE Entries(_, _, _)
\* "for i, result in enumerate(results, 1)", a blank line between entries
Entries(results, i, style) ==
    IF i > Len(results) THEN <<>>
    ELSE Entry(i, results[i], style)
             \o (IF i < Len(results) THEN <<"\n">> ELSE <<>>)
             \o Entries(results, i + 1, style)

RECURSIVE JoinLines(_)
\* "\n".join(lines)
JoinLines(lines) ==
    IF lines = <<>> THEN <<>>
    ELSE IF Len(lines) = 1 THEN lines[1]
    ELSE lines[1] \o <<"\n">> \o JoinLines(Tail(lines))

\* A line of SimpleFormatter.
SimpleLine(r) ==
    IF r.kind = "channel" THEN r.title
    ELSE r.title \o <<" - ">> \o r.channel_title

\* A line of YtdlpFormatter, for a video or a playlist.
YtdlpLine(r, audio_format) ==
    IF audio_format
    THEN <<"yt-dlp -x --audio-format mp3 '">> \o UrlText(r.url) \o <<"'">>
    ELSE <<"yt-dlp '">> \o UrlText(r.url) \o <<"'">>

\* "x or ''" of a CSV cell
TextCell(opt) == IF TruthyText(opt) THEN opt[1] ELSE <<>>
IntCell(opt) == IF TruthyInt(opt) THEN IntText(opt[1]) ELSE <<>>

CsvSpecial == {",", "\"", "\r", "\n"}

RECURSIVE DoubledQuotes(_)
DoubledQuotes(s) ==
    IF s = <<>> THEN <<>>
    ELSE (IF Head(s) = "\"" THEN <<"\"", "\"">> ELSE <<Head(s)>>)
             \o DoubledQuotes(Tail(s))

\* A field as csv.writer writes it (QUOTE_MINIMAL).
CsvField(s) ==
    IF \E i \in 1..Len(s) : s[i] \in CsvSpecial
    THEN <<"\"">> \o DoubledQuotes(s) \o <<"\"">>
    ELSE s

RECURSIVE CsvJoin(_)
CsvJoin(fields) ==
    IF Len(fields) = 1 THEN CsvField(fields[1])
    ELSE CsvField(fields[1]) \o <<",">> \o CsvJoin(Tail(fields))

\* writer.writerow(fields)
CsvRow(fields) == CsvJoin(fields) \o <<"\r\n">>

\* The cells of a record's row.
CsvCells(r) ==
    CASE r.kind = "video" ->
             <<r.title, r.channel_title, TextCell(r.duration),
               IntCell(r.view_count), UrlText(r.url)>>
      [] r.kind = "channel" ->
             <<r.title, TextCell(r.description), IntCell(r.subscriber_count),
               UrlText(r.url)>>
      [] OTHER ->
             <<r.title, r.channel_title, IntCell(r.video_count), UrlText(r.url)>>

RECURSIVE CsvRows(_)
CsvRows(rs) ==
    IF rs = <<>> THEN <<>> ELSE CsvRow(CsvCells(Head(rs))) \o CsvRows(Tail(rs))

\* One block of CSVFormatter: the caption, the header row, the rows and
\* what is written after them; nothing for a kind without records.
CsvBlock(rs, caption, header, after) ==
    IF rs = <<>> THEN <<>>
    ELSE <<caption, header>> \o CsvRows(rs) \o after

\* ESCAPE_DCT of json.encoder for a character below U+0020: the short
\* escape of backspace, tab, line feed, form feed and carriage return, and
\* \u00XX for the others.
ControlEscape(code) ==
    CASE code = 8 -> <<"\\b">>
      [] code = 9 -> <<"\\t">>
      [] code = 10 -> <<"\\n">>
      [] code = 12 -> <<"\\f">>
      [] code = 13 -> <<"\\r">>
      [] OTHER -> <<"\\u00", HexLower[(code \div 16) + 1], HexLower[(code % 16) + 1]>>

\* One character inside the quotes json.dumps(..., ensure_ascii=False)
\* writes.
EscapedChar(ch) ==
    IF ch = "\"" THEN <<"\\\"">>
    ELSE IF ch = "\\" THEN <<"\\\\">>
    ELSE IF Ord(ch) < 32 THEN ControlEscape(Ord(ch))
    ELSE <<ch>>

RECURSIVE Escaped(_)
\* The characters of a str inside the quotes json.dumps writes.
Escaped(s) ==
    IF s = <<>> THEN <<>> ELSE EscapedChar(Head(s)) \o Escaped(Tail(s))

JsonStr(s) == <<"\"">> \o Escaped(s) \o <<"\"">>
JsonOptStr(opt) == IF opt = Nothing THEN <<"null">> ELSE JsonStr(opt[1])
JsonOptInt(opt) == IF opt = Nothing THEN <<"null">> ELSE IntText(opt[1])
JsonUrl(url) == <<"\"", url[1]>> \o Escaped(url[2]) \o <<"\"">>

\* asdict(result): the keys of the record's class in the order of its
\* fields, each with its value as JSON.
to_dict(r) ==
    CASE r.kind = "video" ->
             << <<"title", JsonStr(r.title)>>, <<"url", JsonUrl(r.url)>>,
                <<"channel_title", JsonStr(r.channel_title)>>,
                <<"view_count", JsonOptInt(r.view_count)>>,
                <<"duration", JsonOptStr(r.duration)>>,
                <<"duration_seconds", JsonOptInt(r.duration_seconds)>>,
                <<"thumbnail_url", JsonOptStr(r.thumbnail_url)>>,
                <<"upload_date", <<"null">> >>,
                <<"description", JsonOptStr(r.description)>> >>
      [] r.kind = "channel" ->
             << <<"name", JsonStr(r.title)>>, <<"url", JsonUrl(r.url)>>,
                <<"subscriber_count", JsonOptInt(r.subscriber_count)>>,
                <<"video_count", JsonOptInt(r.video_count)>>,
                <<"description", JsonOptStr(r.description)>>,
                <<"avatar_url", JsonOptStr(r.thumbnail_url)>> >>
      [] OTHER ->
             << <<"title", JsonStr(r.title)>>, <<"url", JsonUrl(r.url)>>,
                <<"channel_title", JsonStr(r.channel_title)>>,
                <<"video_count", JsonOptInt(r.video_count)>>,
                <<"thumbnail_url", JsonOptStr(r.thumbnail_url)>>,
                <<"description", JsonOptStr(r.description)>> >>

RECURSIVE JsonMembers(_)
\* The members of an object at indent 4, ",\n" between them.
JsonMembers(pairs) ==
    <<"    \"", pairs[1][1], "\": ">> \o pairs[1][2]
        \o (IF Len(pairs) = 1 THEN <<>>
            ELSE <<",\n">> \o JsonMembers(Tail(pairs)))

RECURSIVE JsonObjects(_)
\* The objects of the list at indent 2, ",\n" between them.
JsonObjects(results) ==
    <<"  {\n">> \o JsonMembers(to_dict(results[1])) \o <<"\n  }">>
        \o (IF Len(results) = 1 THEN <<>>
            ELSE <<",\n">> \o JsonObjects(Tail(results)))

\* json.dumps(data, indent=2, ensure_ascii=False)
JsonDumps(results) ==
    IF results = <<>> THEN <<"[]">>
    ELSE <<"[\n">> \o JsonObjects(results) \o <<"\n]">>

\* "return '...'" before any write: the early return of a formatter.
Early(text) == [returned |-> text, writes |-> <<>>]

\* "if output_file: output_file.write(formatted)" and "return formatted"
Out(formatted, output_file) ==
    [returned |-> formatted,
     writes |-> IF output_file THEN <<formatted>> ELSE <<>>]

NoResultsFound == <<"No results found.">>

\* TableFormatter.format; YtdlpTableFormatter.format with its audio_format
TableFormatter(results, output_file, style) ==
    IF results = <<>> THEN Early(NoResultsFound)
    ELSE Out(Entries(results, 1, style), output_file)

JSONFormatter(results, output_file) == Out(JsonDumps(results), output_file)

CSVFormatter(results, output_file) ==
    IF results = <<>> THEN Early(<<>>)
    ELSE Out(CsvBlock(OfKind(results, "video"), "Videos:\n",
                      "Title,Channel,Duration,Views,URL\r\n", <<"\n">>)
                 \o CsvBlock(OfKind(results, "channel"), "Channels:\n",
                             "Name,Description,Subscribers,URL\r\n", <<"\n">>)
                 \o CsvBlock(OfKind(results, "playlist"), "Playlists:\n",
                             "Title,Channel,Video Count,URL\r\n", <<>>),
             output_file)

SimpleFormatter(results, output_file) ==
    IF results = <<>> THEN Early(NoResultsFound)
    ELSE Out(JoinLines([i \in 1..Len(results) |-> SimpleLine(results[i])]),
             output_file)

\* YtdlpFormatter.format: a channel gets no line.
YtdlpLines(rs, audio_format) ==
    JoinLines([i \in 1..Len(rs) |-> YtdlpLine(rs[i], audio_format)])

YtdlpFormatter(results, output_file, audio_format) ==
    IF results = <<>> THEN Early(NoResultsFound)
    ELSE Out(YtdlpLines(SelectSeq(results, LAMBDA r : r.kind # "channel"),
                        audio_format),
             output_file)

\* get_formatter(name)().format(results, output_file) for a registered name
Format(name, results, output_file) ==
    CASE name = "table" -> TableFormatter(results, output_file, "table")
      [] name = "json" -> JSONFormatter(results, output_file)
      [] name = "csv" -> CSVFormatter(results, output_file)
      [] name = "simple" -> SimpleFormatter(results, output_file)
      [] name = "ytdlp" -> YtdlpFormatter(results, output_file, FALSE)
      [] OTHER -> TableFormatter(results, output_file, name)

RECURSIVE FileText(_)
\* What the file holds when it is closed: the texts written, in order.
FileText(writes) ==
    IF writes = <<>> THEN <<>> ELSE Head(writes) \o FileText(Tail(writes))

(***************************************************************************)
(* The formatters on a list of records.                                    *)
(***************************************************************************)
Quoted == <<"a", ",", "\"", "b", "\"">>
\* 'a', form feed, U+0001, backspace, DEL and 'é'
Controls == <<"a", "\f", CharTable[1], CharTable[8], CharTable[126], "é">>
\* the url urljoin gives for '/c/a b?x="y"'
JoinedUrl == UrlJoin(<<"/", "c", "/", "a", " ", "b", "?", "x", "=", "\"", "y", "\"">>).val
WatchedVideo ==
    [Record("video", Intro, WatchBase, Abc123) EXCEPT
        !.channel_title = Owner, !.duration = Some(Length),
        !.duration_seconds = Some(630), !.view_count = Some(2500000),
        !.thumbnail_url = Some(AbsoluteSrc), !.description = Some(Quoted)]
FormatRecords ==
    {Record("video", Intro, WatchBase, Abc123),
     WatchedVideo,
     [WatchedVideo EXCEPT !.title = Quoted, !.view_count = Some(1250),
                          !.duration = Some(<<>>)],
     [WatchedVideo EXCEPT !.view_count = Some(0 - 5), !.duration = Nothing],
     [Record("channel", Owner, ChannelBase, Xyz789) EXCEPT
         !.subscriber_count = Some(999999), !.description = Some(Intro)],
     Record("channel", Owner, ChannelBase, Xyz789),
     [Record("playlist", Fallback, PlaylistBase, Xyz789) EXCEPT
         !.channel_title = Owner, !.video_count = Some(12)],
     Record("playlist", <<>>, PlaylistBase, Xyz789),
     [WatchedVideo EXCEPT !.title = Controls, !.view_count = Some(1050)],
     [Record("channel", Owner, "", JoinedUrl) EXCEPT
         !.subscriber_count = Some(1150000000), !.description = Some(Controls)]}

FormatArgs ==
    [name : Registered, results : SeqsUpTo(FormatRecords, MaxItems),
     output_file : BOOLEAN]

InitFormat == InitClient /\ calc \in {Ready("format", a) : a \in FormatArgs}

\* formatter.format(results, f) inside "with open(args.output, 'w') as f",
\* or formatter.format(results) when no output is asked for.
ApplyFormat ==
    /\ calc.pc = "ready"
    /\ calc.fn = "format"
    /\ calc' = Applied(Format(calc.arg.name, calc.arg.results, calc.arg.output_file))
    /\ Idle

NextFormat == ApplyFormat

SpecFormat == InitFormat /\ [][NextFormat]_vars

(***************************************************************************)
(* Properties.                                                             *)
(***************************************************************************)
Has(log, e) == \E i \in 1..Len(log) : log[i] = e
Count(log, e) == Cardinality({i \in 1..Len(log) : log[i] = e})
IsBlank(q) == \A i \in 1..Len(q) : q[i] \in Whitespace
Parsed(c) ==
    call[c].pc \in {"return", "closing", "done"} /\ Has(call[c].log, "structured")
\* How the call ends: the outcome that has left it, or the one pending
\* while its session closes.
Fate(c) ==
    IF call[c].pending # Nothing THEN call[c].pending[1].outcome ELSE call[c].outcome

\* C1: in every call the structured extractor runs before the fallback
\* extractor, and when its output is non-empty the list that is then
\* truncated is exactly that output and the fallback extractor has not run,
\* whatever containers the page's HTML holds.
C1_StructuredFirst ==
    \A c \in Calls :
        /\ \A i \in 1..Len(call[c].log) :
               call[c].log[i] = "fallback" =>
                   \E j \in 1..(i - 1) : call[c].log[j] = "structured"
        /\ Parsed(c) /\ call[c].json_results # <<>> =>
               /\ call[c].results = call[c].json_results
               /\ ~Has(call[c].log, "fallback")
               /\ call[c].html_results = <<>>

C1_Witness ==
    /\ call["c1"].outcome = "returned"
    /\ call["c1"].json_results # <<>>
    /\ _parse_html_results(call["c1"].page.html, call["c1"].result_type).recs # <<>>

\* C2: when the structured extractor returns an empty list (no embedded
\* variable, invalid JSON, or no item of the requested kind), the fallback
\* extractor runs exactly once, the list that is then truncated is its
\* output, and the call returns (an empty list included) instead of raising.
C2_FallbackOnEmpty ==
    \A c \in Calls :
        LET json == _extract_json_results(call[c].page.json, call[c].result_type)
            html == _parse_html_results(call[c].page.html, call[c].result_type)
        IN  Parsed(c) /\ json.exc = "None" /\ json.recs = <<>> =>
                /\ Count(call[c].log, "fallback") = 1
                /\ call[c].results = html.recs
                /\ call[c].pc \in {"closing", "done"} => Fate(c) = "returned"

C2_Witness ==
    /\ call["c1"].outcome = "returned"
    /\ call["c1"].page.json.var = "ok"
    /\ call["c1"].json_results = <<>>
    /\ call["c1"].returned # <<>>

\* C3: for a non-negative max_results k and n extracted records, the
\* returned list is the first min(k, n) records, k = 0 included.
C3_Truncation ==
    \A c \in Calls :
        /\ call[c].outcome = "returned"
        /\ call[c].max_results # Nothing
        /\ call[c].max_results[1] >= 0
        => call[c].returned =
               SubSeq(call[c].results, 1,
                      Min(call[c].max_results[1], Len(call[c].results)))

\* C4: no structural failure of the embedded JSON escapes the structured
\* extractor: once it has run the call does not end in an error, and with
\* nothing extracted the fallback extractor runs.
C4_StructuralFailureAbsorbed ==
    \A c \in Calls :
        Has(call[c].log, "structured") =>
            /\ Fate(c) # "error"
            /\ call[c].pc = "done" /\ call[c].json_results = <<>> =>
                   Has(call[c].log, "fallback")

\* C5: every returned record has a non-empty title (name) and a url that
\* carries an id, in both extraction paths.
C5_IdentityFields ==
    \A c \in Calls :
        \A i \in 1..Len(call[c].returned) :
            /\ call[c].returned[i].title # <<>>
            /\ call[c].returned[i].url[2] # <<>>

\* C6: calls that overlap share no session: while a call waits for its
\* response, the session its request went through is the one it opened, is
\* still the one its client holds, and has not been closed.
C6_NoSharedSession ==
    \A c \in Calls :
        call[c].pc \in {"awaitStatus", "awaitBody"} =>
            /\ call[c].req = call[c].own
            /\ session[call[c].client] = call[c].own
            /\ call[c].req \notin closed

\* C7: a call whose query is empty or whitespace only ends with the
\* SearchError "Query cannot be empty", having opened no session and issued
\* no fetch.
C7_BlankQueryRejected ==
    \A c \in Calls :
        call[c].pc # "idle" /\ IsBlank(call[c].query) =>
            /\ call[c].pc = "done"
            /\ call[c].outcome = "error"
            /\ call[c].exc = "SearchError"
            /\ call[c].message = "Query cannot be empty"
            /\ call[c].own = None
            /\ call[c].fetches = 0
            /\ call[c].log = <<>>

C7_Witness ==
    \E c \in Calls :
        /\ call[c].pc = "done"
        /\ Len(call[c].query) > 0
        /\ IsBlank(call[c].query)

\* C8: a network error or a non-success status ends the call with a
\* SearchError (with the status as response_code when there is one), no
\* extractor run and one fetch issued; a success status (2xx) never does:
\* its page text is parsed.
C8_TransportErrors ==
    \A c \in Calls :
        /\ call[c].status # None /\ call[c].status \notin 200..299 =>
               /\ Fate(c) = "error"
               /\ call[c].exc = "SearchError"
               /\ call[c].pc = "done" => call[c].response_code = call[c].status
               /\ call[c].fetches = 1
               /\ ~Has(call[c].log, "structured")
               /\ ~Has(call[c].log, "fallback")
        /\ call[c].message = "Network error" =>
               /\ call[c].outcome = "error"
               /\ call[c].exc = "SearchError"
               /\ call[c].fetches = 1
               /\ ~Has(call[c].log, "structured")
               /\ ~Has(call[c].log, "fallback")
        /\ call[c].status \in 200..299 =>
               ~(call[c].outcome = "error" /\ call[c].response_code # None)

\* C9: in a command handler the renderer is looked up before the search's
\* fetch is issued, so a run that ends with the unknown-format error has
\* issued no fetch.
C9_FormatRejectedEagerly ==
    /\ cli.lookups > 0 => cli.fetchesAtLookup = 0
    /\ cli.outcome = "unknown-format" => call["c1"].fetches = 0

\* The record a container gives when its extraction is left to run: the
\* body of the try block, without the handler.
ContainerBody(c) ==
    CASE c.kind = "video" -> VideoBody(c)
      [] c.kind = "channel" -> ChannelBody(c)
      [] OTHER -> PlaylistBody(c)
Asked(c, result_type) == result_type \in {c.kind, "all"}

\* C10: once the fallback extractor has run, no exception has left it, each
\* container of a requested kind that has its fields has its record in the
\* output, and the containers that lack them or whose extraction raises
\* have none: the output has one record per well-formed container.
C10_BadContainerSkipped ==
    \A c \in Calls :
        LET html == call[c].page.html
            rt == call[c].result_type
            good == {i \in 1..Len(html) :
                        /\ Asked(html[i], rt)
                        /\ ContainerBody(html[i]).exc = "None"
                        /\ ContainerBody(html[i]).recs # <<>>}
        IN  Has(call[c].log, "fallback") =>
                /\ Fate(c) # "error"
                /\ Len(call[c].html_results) = Cardinality(good)
                /\ \A i \in good :
                       \E j \in 1..Len(call[c].html_results) :
                           call[c].html_results[j] = ContainerBody(html[i]).recs[1]

C10_Witness ==
    /\ call["c1"].outcome = "returned"
    /\ Has(call["c1"].log, "fallback")
    /\ Len(call["c1"].page.html) = 2
    /\ call["c1"].page.html[1].raises
    /\ Len(call["c1"].html_results) = 1

MarkerOf(kind) ==
    CASE kind = "video" -> "videoRenderer"
      [] kind = "channel" -> "channelRenderer"
      [] OTHER -> "playlistRenderer"

\* The item carries the marker key of a kind the filter asks for.
Wanted(item, result_type) ==
    /\ item.type = "dict"
    /\ \E kind \in Kinds : MarkerOf(kind) \in item.keys /\ result_type \in {kind, "all"}

RECURSIVE WantedItems(_, _, _)
\* The wanted items of the sections from the i-th on, in document order.
WantedItems(secs, i, result_type) ==
    IF i > Len(secs) THEN <<>>
    ELSE (IF secs[i].type = "dict" /\ secs[i].isr = "dict"
          THEN SelectSeq(secs[i].items, LAMBDA item : Wanted(item, result_type))
          ELSE <<>>)
         \o WantedItems(secs, i + 1, result_type)

\* The sections the structured extractor reaches in a document.
Reached(json) ==
    IF json.var = "ok" /\ Navigate(json.nav, 1) = "dict" /\ json.contents = "list"
    THEN json.sections ELSE <<>>

\* C11: with filter video, channel or playlist every record of either
\* extractor is of that kind, an item or container of another kind giving
\* nothing; with filter all, the items and the containers of all three
\* kinds give records.  Each JSON item that carries a marker key the filter
\* asks for gives exactly one record, of a kind whose marker key the item
\* carries, and every other item gives none.  (An item that raises a
\* KeyError ends the extraction: the items after it give no record.)
C11_KindFilter ==
    \A c \in Calls :
        LET rt == call[c].result_type
            json == call[c].json_results
            html == call[c].html_results
            wanted == WantedItems(Reached(call[c].page.json), 1, rt)
            containers == call[c].page.html
        IN  /\ rt # "all" =>
                   /\ \A i \in 1..Len(json) : json[i].kind = rt
                   /\ \A i \in 1..Len(html) : html[i].kind = rt
            /\ Parsed(c) /\ call[c].exc = "None" =>
                   /\ Len(json) <= Len(wanted)
                   /\ \A i \in 1..Len(json) : MarkerOf(json[i].kind) \in wanted[i].keys
                   /\ JsonWalk(call[c].page.json, rt).exc = "None" =>
                          Len(json) = Len(wanted)
            /\ Has(call[c].log, "fallback") /\ call[c].exc = "None" =>
                   \A i \in 1..Len(containers) :
                       /\ Asked(containers[i], rt)
                       /\ ContainerBody(containers[i]).recs # <<>>
                       => \E j \in 1..Len(html) : html[j].kind = containers[i].kind

C11_Witness ==
    /\ call["c1"].outcome = "returned"
    /\ call["c1"].result_type = "channel"
    /\ Len(call["c1"].json_results) = 1
    /\ \E sec \in 1..Len(call["c1"].page.json.sections) :
           LET items == call["c1"].page.json.sections[sec].items IN
           /\ Len(items) = 2
           /\ "videoRenderer" \in items[1].keys
           /\ items[2].keys = {"channelRenderer"}

\* The document with exactly one item, the videoRenderer of the scenario.
IntroJson == Json("ok", GoodNav, "list", <<Section("dict", "dict", <<IntroVideoItem>>)>>)

\* C12: a page whose embedded JSON holds exactly one videoRenderer item
\* with videoId abc123, title Intro, view-count text "2.5M views" and length
\* text "10:30" yields exactly one record, a video whose url ends with
\* watch?v=abc123, whose view_count is 2500000 and whose duration_seconds
\* is 630.
C12_EndToEnd ==
    \A c \in Calls :
        /\ call[c].page.json = IntroJson
        /\ call[c].result_type \in {"video", "all"}
        /\ call[c].pc \in {"fallback", "return", "closing", "done"}
        => /\ call[c].pc # "fallback"
           /\ Len(call[c].results) = 1
           /\ call[c].results[1].kind = "video"
           /\ call[c].results[1].url = <<WatchBase, Abc123>>
           /\ call[c].results[1].title = Intro
           /\ call[c].results[1].view_count = Some(2500000)
           /\ call[c].results[1].duration_seconds = Some(630)
           /\ call[c].pc \in {"closing", "done"} => Fate(c) = "returned"
           /\ call[c].pc = "done" /\ (call[c].limit = Nothing \/ call[c].limit[1] >= 1) =>
                  call[c].returned = call[c].results

C12_Witness ==
    /\ call["c1"].page.json = IntroJson
    /\ call["c1"].outcome = "returned"
    /\ Len(call["c1"].returned) = 1

\* A finite float rounded to the nearest integer, a half rounded away from
\* zero.
RoundHalfUp(x) ==
    IF x.m = <<>> \/ x.e < 0 - 54 THEN 0
    ELSE IF x.e >= 0 THEN BigValue(Pow2Times(x.m, x.e))
    ELSE IF BigLess(BigTwice(BigDivMod(x.m, Pow2Times(<<1>>, 0 - x.e)).r),
                    Pow2Times(<<1>>, 0 - x.e))
    THEN Truncated(x)
    ELSE Truncated(x) + 1

\* number * multiplier for the suffix that ends text
Multiplied(number, text) == Times(number, Multiplier(UpperChar(text[Len(text)])))

Suffixes == {"K", "M", "B", "k", "m", "b"}
Counted(text) == calc.pc = "done" /\ calc.fn = "_parse_view_count" /\ calc.arg = text

\* C13: for every text <number><suffix> with suffix K, M or B in either
\* case the result is number * multiplier rounded to the nearest integer
\* (a fractional part of one half or more rounds up); "1,234,567" gives
\* 1234567, "" gives nothing and "2.5M" gives 2500000.
C13_RoundedProduct ==
    /\ calc.pc = "done" /\ calc.fn = "_parse_view_count" /\ calc.arg # <<>> =>
           LET text == calc.arg
               number == ParseFloat(SubSeq(text, 1, Len(text) - 1))
           IN  text[Len(text)] \in Suffixes /\ number.kind = "finite" =>
                   /\ calc.res.exc = "None"
                   /\ calc.res.val =
                          Some(Signed(number.neg, RoundHalfUp(Multiplied(number, text))))
    /\ Counted(<<"1", ",", "2", "3", "4", ",", "5", "6", "7">>) => calc.res = Ret(Some(1234567))
    /\ Counted(<<>>) => calc.res = Ret(Nothing)
    /\ Counted(<<"2", ".", "5", "M">>) => calc.res = Ret(Some(2500000))

\* C18: the thousands separators and the unit words are removed; when the
\* rest ends in K, M or B (either case) and what precedes the suffix parses
\* as a number, the result is that number times the multiplier truncated
\* toward zero; otherwise the result is the rest parsed as a plain integer,
\* or nothing when it is none; and no error is raised.
C18_DecisionProcedure ==
    calc.pc = "done" /\ calc.fn = "_parse_view_count" =>
        LET rest == Replace(Replace(Replace(calc.arg, <<",">>), Views), Subscribers)
            suffixed == rest # <<>> /\ rest[Len(rest)] \in Suffixes
            number == ParseFloat(SubSeq(rest, 1, Len(rest) - 1))
        IN  /\ calc.res.exc = "None"
            /\ IF suffixed /\ number.kind = "finite"
               THEN calc.res.val =
                        Some(Signed(number.neg, Truncated(Multiplied(number, rest))))
               ELSE calc.res.val = ParseInt(rest)

\* The positions of the colons of a text, and the text between two positions.
Colons(text) == {i \in 1..Len(text) : text[i] = ":"}
Between(text, i, j) == SubSeq(text, i + 1, j - 1)
Timed(text) ==
    calc.pc = "done" /\ calc.fn = "_parse_duration_to_seconds" /\ calc.arg = text

\* C14: a text with one ':' and two numeric parts m:s gives 60*m + s; a
\* text with two ':' and three numeric parts h:m:s gives 3600*h + 60*m + s;
\* every other text (empty, no ':', three or more ':', a part that is no
\* number) gives nothing; and no text makes the parser raise.  "10:30"
\* gives 630, "1:02:03" gives 3723, "abc" and "1:2:3:4" give nothing.
C14_DurationSeconds ==
    /\ calc.pc = "done" /\ calc.fn = "_parse_duration_to_seconds" =>
           LET text == calc.arg
               end == Len(text) + 1
               at == Colons(text)
               first == CHOOSE i \in at : \A j \in at : i <= j
               last == CHOOSE i \in at : \A j \in at : j <= i
               h == ParseInt(Between(text, 0, first))
               m == ParseInt(Between(text, first, last))
               s == ParseInt(Between(text, last, end))
           IN  /\ calc.res.exc = "None"
               /\ calc.res.val =
                      IF Cardinality(at) = 1 /\ h # Nothing /\ s # Nothing
                      THEN Some(60 * h[1] + s[1])
                      ELSE IF Cardinality(at) = 2 /\ h # Nothing /\ m # Nothing /\ s # Nothing
                      THEN Some(3600 * h[1] + 60 * m[1] + s[1])
                      ELSE Nothing
    /\ Timed(<<"1", "0", ":", "3", "0">>) => calc.res.val = Some(630)
    /\ Timed(<<"1", ":", "0", "2", ":", "0", "3">>) => calc.res.val = Some(3723)
    /\ Timed(<<"a", "b", "c">>) => calc.res.val = Nothing
    /\ Timed(<<"1", ":", "2", ":", "3", ":", "4">>) => calc.res.val = Nothing

C14_Witness == Timed(<<"1", ":", "0", "2", ":", "0", "3">>) /\ calc.res.val = Some(3723)

Phrased(text) == calc.pc = "done" /\ calc.fn = "_parse_video_count" /\ calc.arg = text

\* C15: the result is the integer value of the leftmost maximal run of
\* decimal digits of the text, and nothing when the text has no digit;
\* "123 videos" gives 123 and "no number here" gives nothing.
C15_FirstDigitRun ==
    /\ calc.pc = "done" /\ calc.fn = "_parse_video_count" =>
           LET text == calc.arg
               digits == {i \in 1..Len(text) : text[i] \in DigitChars}
               from == CHOOSE i \in digits : \A j \in digits : i <= j
               to == CHOOSE i \in from..Len(text) :
                         /\ \A j \in from..i : j \in digits
                         /\ (i + 1) \notin digits
           IN  /\ calc.res.exc = "None"
               /\ calc.res.val =
                      IF digits = {} THEN Nothing
                      ELSE Some(DigitsValue(SubSeq(text, from, to)))
    /\ Phrased(<<"1", "2", "3", " ", "v", "i", "d", "e", "o", "s">>) => calc.res.val = Some(123)
    /\ Phrased(<<"n", "o", " ", "n", "u", "m", "b", "e", "r", " ", "h", "e", "r", "e">>) => calc.res.val = Nothing

C15_Witness == Phrased(<<"a", "1", "b", "2", "2">>) /\ calc.res.val = Some(1)

\* The tokens of the "sp" parameter of a URL.
SpTokens(url) ==
    UNION {{url.params[i][2][j] : j \in 1..Len(url.params[i][2])} :
               i \in {k \in 1..Len(url.params) : url.params[k][1] = "sp"}}
TokensOf(filter) == {filter[i] : i \in 1..Len(filter)}

\* C16: the URL a call builds carries every filter the caller asked for: the
\* filter parameter holds the token of the result type, the token of a
\* non-default sort order and the token of a duration bucket.
C16_EveryFilterInUrl ==
    calc.pc = "done" /\ calc.fn = "_build_search_url" =>
        /\ TokensOf(TypeFilter(calc.arg.result_type)) \subseteq SpTokens(calc.res)
        /\ TokensOf(OrderFilter(calc.arg.order)) \subseteq SpTokens(calc.res)
        /\ TokensOf(DurationFilter(calc.arg.duration)) \subseteq SpTokens(calc.res)

\* A list of at most cap records, for a cap that is a number of records.
Limited(out, cap) == cap # Nothing /\ cap[1] >= 0 => Len(out) <= cap[1]

\* C17: search_videos, search_channels and search_playlists return only
\* records of their own kind, in the order the search returned them, and
\* never more than max_results of them (than the client's default when
\* max_results is not given).
C17_OwnKindOnly ==
    wrap.pc = "done" /\ wrap.outcome = "returned" =>
        /\ \A i \in 1..Len(wrap.out) : wrap.out[i].kind = wrap.kind
        /\ wrap.out = OfKind(call["c1"].returned, wrap.kind)
        /\ Limited(wrap.out, IF call["c1"].max_results = Nothing
                              THEN max_results["k1"]
                              ELSE call["c1"].max_results)

\* The renderer of the applied item lacks the key.
Lacks(key) == key \notin DOMAIN calc.arg.item.fields

\* The item carries a marker key of the requested kind.
Marked ==
    /\ calc.pc = "done"
    /\ calc.fn = "_parse_json_item"
    /\ \E kind \in Kinds :
           /\ KindMarker(kind) \in calc.arg.item.keys
           /\ calc.arg.result_type \in {kind, "all"}

\* What the record of a kind shows for a key its renderer lacks: the empty
\* string for a text, absence for a count, a duration in seconds or a
\* thumbnail.
Defaulted(rec) ==
    /\ Lacks("title") => rec.title = <<>>
    /\ rec.kind \in {"video", "playlist"} /\ Lacks("ownerText") =>
           rec.channel_title = <<>>
    /\ rec.kind = "video" /\ Lacks("lengthText") =>
           rec.duration = Some(<<>>) /\ rec.duration_seconds = Nothing
    /\ rec.kind = "video" /\ Lacks("viewCountText") => rec.view_count = Nothing
    /\ rec.kind = "channel" /\ Lacks("descriptionSnippet") =>
           rec.description = Some(<<>>)
    /\ rec.kind = "channel" /\ Lacks("subscriberCountText") =>
           rec.subscriber_count = Nothing
    /\ rec.kind = "playlist" /\ Lacks("videoCountText") => rec.video_count = Nothing
    /\ rec.kind \in {"video", "channel"} /\ Lacks("thumbnail") =>
           rec.thumbnail_url = Nothing
    /\ rec.kind = "playlist" /\ Lacks("thumbnails") => rec.thumbnail_url = Nothing

\* C19: a JSON item that carries a marker key of the requested kind but
\* lacks any subset of its other fields never makes _parse_json_item raise:
\* it returns one record of that kind, with each missing text field read as
\* the empty string and each missing count or thumbnail as absent.
C19_MissingFieldsDefault ==
    Marked =>
        /\ calc.res.exc = "None"
        /\ Len(calc.res.recs) = 1
        /\ KindMarker(calc.res.recs[1].kind) \in calc.arg.item.keys
        /\ Defaulted(calc.res.recs[1])

C19_Witness ==
    /\ Marked
    /\ calc.arg.item.keys = {"videoRenderer"}
    /\ DOMAIN calc.arg.item.fields = {"viewCountText"}
    /\ calc.res.recs[1].title = <<>>
    /\ calc.res.recs[1].view_count = Some(2500000)
    /\ calc.res.recs[1].thumbnail_url = Nothing

RECURSIVE Concat(_)
\* The texts of the runs, one after the other, a run without text counting
\* as the empty text.
Concat(runs) ==
    IF runs = <<>> THEN <<>>
    ELSE Concat(SubSeq(runs, 1, Len(runs) - 1))
             \o (IF runs[Len(runs)].has THEN runs[Len(runs)].text ELSE <<>>)

\* C20: _extract_text gives a plain string itself, a mapping with
\* simpleText that value, a mapping with runs the concatenation of every
\* run's text in list order (a run without text contributing nothing), and
\* every other value (a mapping with neither key, a list, a number, null)
\* the empty string; no value makes it raise.
C20_TextShapes ==
    calc.pc = "done" /\ calc.fn = "_extract_text" =>
        /\ calc.res.exc = "None"
        /\ calc.res.val =
               IF calc.arg.type = "str" THEN calc.arg.text
               ELSE IF calc.arg.type = "dict" /\ "simpleText" \in calc.arg.keys
               THEN calc.arg.text
               ELSE IF calc.arg.type = "dict" /\ "runs" \in calc.arg.keys
               THEN Concat(calc.arg.runs)
               ELSE <<>>

\* The list of thumbnails that the applied renderer holds, the empty list
\* when it holds none: the "thumbnails" of its thumbnail object, for a
\* playlist those of the first of its thumbnail objects.
ThumbList(item) ==
    IF "playlistRenderer" \in item.keys
    THEN IF "thumbnails" \in DOMAIN item.fields
            /\ item.fields["thumbnails"] # <<>>
            /\ item.fields["thumbnails"][1].has
         THEN item.fields["thumbnails"][1].urls
         ELSE <<>>
    ELSE IF "thumbnail" \in DOMAIN item.fields /\ item.fields["thumbnail"].has
         THEN item.fields["thumbnail"].urls
         ELSE <<>>

\* C21: for every video, channel and playlist item of the structured path
\* whose list of thumbnails is non-empty the record's thumbnail_url (the
\* avatar_url of a channel) is the url of the last entry of the list, and
\* when the list is missing or empty the field is absent.
C21_LastThumbnail ==
    Marked /\ calc.res.exc = "None" =>
        calc.res.recs[1].thumbnail_url =
            IF ThumbList(calc.arg.item) = <<>> THEN Nothing
            ELSE ThumbList(calc.arg.item)[Len(ThumbList(calc.arg.item))]

C21_Witness ==
    /\ Marked
    /\ calc.arg.item.keys = {"playlistRenderer"}
    /\ ThumbList(calc.arg.item) = <<Some(LowUrl), Some(ThumbUrl)>>
    /\ calc.res.recs[1].thumbnail_url = Some(ThumbUrl)

\* A container parser has been applied and has given a record.
Recorded ==
    /\ calc.pc = "done"
    /\ calc.fn = "ParseContainer"
    /\ calc.res.recs # <<>>

\* C22: in the fallback path, for a video title, a playlist title and a
\* channel name alike, the record's title or name is the title attribute of
\* the matched element when that is non-empty, and otherwise the element's
\* text with the surrounding whitespace trimmed.
C22_TitleAttrPreferred ==
    Recorded =>
        calc.res.recs[1].title =
            IF calc.arg.titleAttr # <<>> THEN calc.arg.titleAttr
            ELSE Strip(calc.arg.text)

\* The count that the text of a count element shows.
Shown(count) == _parse_view_count(Strip(count[1])).val

\* C23: in the fallback path each secondary field is read from the
\* container when a matching element exists and is empty or absent only
\* when none matches: the channel name of a video or playlist, the
\* duration of a video, the description of a channel, and the subscriber
\* count of a channel and the video count of a playlist.
C23_SecondaryFieldsRead ==
    Recorded =>
        LET c == calc.arg
            rec == calc.res.recs[1]
        IN  /\ c.kind \in {"video", "playlist"} /\ c.channel # Nothing =>
                   rec.channel_title = Strip(c.channel[1])
            /\ c.kind = "video" /\ c.duration # Nothing =>
                   rec.duration = Some(Strip(c.duration[1]))
            /\ c.kind = "channel" /\ c.description # Nothing =>
                   rec.description = Some(Strip(c.description[1]))
            /\ c.kind = "channel" /\ c.count # Nothing =>
                   rec.subscriber_count = Shown(c.count)
            /\ c.kind = "playlist" /\ c.count # Nothing =>
                   rec.video_count = Shown(c.count)

\* An attribute of the image that is there and not empty.
Filled(attr) == attr # Nothing /\ attr[1] # <<>>

\* The URL with "https:" in front when it starts with "//".
WithScheme(url) ==
    IF Len(url) >= 2 /\ url[1] = "/" /\ url[2] = "/"
    THEN <<"h", "t", "t", "p", "s", ":">> \o url
    ELSE url

\* C24: in the fallback path the thumbnail or avatar URL is the image's src
\* when that is non-empty, else its data-src, else absent; a URL that
\* starts with '//' gets 'https:' in front and every other URL is returned
\* unchanged.
C24_ThumbnailNormalised ==
    Recorded =>
        calc.res.recs[1].thumbnail_url =
            IF calc.arg.img = Nothing THEN Nothing
            ELSE IF Filled(calc.arg.img[1].src)
            THEN Some(WithScheme(calc.arg.img[1].src[1]))
            ELSE IF Filled(calc.arg.img[1].dataSrc)
            THEN Some(WithScheme(calc.arg.img[1].dataSrc[1]))
            ELSE Nothing

\* pat followed by id stands in href, and id goes up to the next '&' or to
\* the end of href.
CapturedAt(href, pat, id) ==
    /\ id # <<>>
    /\ \A i \in 1..Len(id) : id[i] # "&"
    /\ \E i \in 0..(Len(href) - Len(pat) - Len(id)) :
           /\ SubSeq(href, i + 1, i + Len(pat) + Len(id)) = pat \o id
           /\ i + Len(pat) + Len(id) < Len(href) =>
                  href[i + Len(pat) + Len(id) + 1] = "&"

\* The anchors of the container whose href contains one of the patterns.
Anchors(c, pats) ==
    {i \in 1..Len(c.hrefs) : \E p \in pats : Contains(c.hrefs[i], p)}

\* i is the first anchor of the container with one of the patterns.
FirstAnchor(c, pats, i) ==
    i \in Anchors(c, pats) /\ \A j \in Anchors(c, pats) : i <= j

\* C25: in the fallback path the id of a video container is its data
\* attribute when that is present and non-empty, and otherwise the id
\* captured from the first anchor whose href contains watch?v= (up to the
\* next '&'); a container with neither yields no record.  A playlist
\* container needs an anchor href with list=, a channel container one with
\* /channel/, /c/ or /@.
C25_IdentityId ==
    /\ Recorded /\ calc.arg.kind = "video" =>
           IF calc.arg.dataId # <<>>
           THEN calc.res.recs[1].url = <<WatchBase, calc.arg.dataId>>
           ELSE /\ calc.res.recs[1].url[1] = WatchBase
                /\ \E i \in 1..Len(calc.arg.hrefs) :
                       /\ FirstAnchor(calc.arg, {WatchPat}, i)
                       /\ CapturedAt(calc.arg.hrefs[i], WatchPat,
                                     calc.res.recs[1].url[2])
    /\ Recorded /\ calc.arg.kind = "playlist" =>
           /\ calc.res.recs[1].url[1] = PlaylistBase
           /\ \E i \in 1..Len(calc.arg.hrefs) :
                  /\ FirstAnchor(calc.arg, {ListPat}, i)
                  /\ CapturedAt(calc.arg.hrefs[i], ListPat, calc.res.recs[1].url[2])
    /\ Recorded /\ calc.arg.kind = "channel" => Anchors(calc.arg, ChannelPats) # {}

C25_Witness ==
    /\ Recorded
    /\ calc.arg.kind = "video"
    /\ calc.arg.dataId = <<>>
    /\ calc.arg.hrefs = <<<<"/", "a", "b", "o", "u", "t">>, <<"/", "w", "a", "t", "c", "h", "?", "v", "=", "x", "y", "z", "7", "8", "9", "&", "t", "=", "1">>>>
    /\ calc.res.recs[1].url = <<WatchBase, Xyz789>>

\* An Optional number that is absent or not negative.
NonNegative(n) == n = Nothing \/ n[1] >= 0

\* C26: every numeric field of every emitted record (view_count,
\* duration_seconds, subscriber_count, video_count) is absent or a
\* non-negative integer, whatever display text the page supplied, texts
\* with a leading minus sign included.
C26_NonNegativeNumbers ==
    calc.pc = "done" /\ calc.fn = "_parse_json_item" /\ calc.res.exc = "None" =>
        \A i \in 1..Len(calc.res.recs) :
            /\ NonNegative(calc.res.recs[i].view_count)
            /\ NonNegative(calc.res.recs[i].duration_seconds)
            /\ NonNegative(calc.res.recs[i].subscriber_count)
            /\ NonNegative(calc.res.recs[i].video_count)

\* C27: every search call that passes the query validation opens exactly
\* one HTTP session, and on every way out of the call (a returned list, a
\* transport error, an extraction error) that session has been closed: no
\* session opened by a call stays open after it.
C27_SessionClosed ==
    \A c \in Calls :
        call[c].pc = "done" =>
            /\ call[c].own # None <=> ~IsBlank(call[c].query)
            /\ Count(call[c].log, "open") = (IF call[c].own # None THEN 1 ELSE 0)
            /\ call[c].own # None => call[c].own \in closed

\* C28: once the session is open, the only exception class that leaves a
\* search call is SearchError: a SearchError raised inside is re-raised as
\* it is, with its response_code, and every other exception raised while
\* fetching or parsing is replaced by a SearchError without a response
\* code.
C28_OnlySearchErrorEscapes ==
    \A c \in Calls :
        call[c].pc = "done" /\ call[c].own # None /\ call[c].outcome = "error" =>
            /\ call[c].escapes = "SearchError"
            /\ call[c].exc = "SearchError" =>
                   /\ call[c].message \in {"HTTP status", "Network error"}
                   /\ call[c].message = "HTTP status" =>
                          call[c].response_code = call[c].status
                   /\ call[c].message = "Network error" =>
                          call[c].response_code = None
            /\ call[c].exc # "SearchError" =>
                   /\ call[c].message = "Search failed"
                   /\ call[c].response_code = None

C28_Witness ==
    /\ call["c1"].pc = "done"
    /\ call["c1"].exc = "TypeError"
    /\ call["c1"].escapes = "SearchError"
    /\ call["c1"].message = "Search failed"
    /\ Has(call["c1"].log, "structured")

RECURSIVE FlatItems(_)
\* The items of the sections of a document, one section after the other.
FlatItems(secs) ==
    IF secs = <<>> THEN <<>>
    ELSE FlatItems(SubSeq(secs, 1, Len(secs) - 1))
             \o (IF secs[Len(secs)].type = "dict" /\ secs[Len(secs)].isr = "dict"
                 THEN secs[Len(secs)].items ELSE <<>>)

RECURSIVE ItemRecords(_, _)
\* The records of a list of items, each at the place of its item.
ItemRecords(items, result_type) ==
    IF items = <<>> THEN <<>>
    ELSE ItemRecords(SubSeq(items, 1, Len(items) - 1), result_type)
             \o _parse_json_item(items[Len(items)], result_type).recs

RECURSIVE ContainerRecords(_)
\* The records of a list of containers, each at the place of its container.
ContainerRecords(cs) ==
    IF cs = <<>> THEN <<>>
    ELSE ContainerRecords(SubSeq(cs, 1, Len(cs) - 1))
             \o ParseContainer(cs[Len(cs)]).recs

\* The records of the containers of one kind, in the order of the page.
Group(html, kind) ==
    ContainerRecords(SelectSeq(html, LAMBDA x : x.kind = kind))

IsPrefix(s, t) == Len(s) <= Len(t) /\ s = SubSeq(t, 1, Len(s))

\* C29: the structured extractor returns its records in document order,
\* section by section and item by item; the fallback extractor with the
\* filter 'all' returns the video records, then the channel records, then
\* the playlist records, each group in document order, however the
\* containers interleave in the page; the returned list is a prefix of that
\* order.  (An item that raises a KeyError ends the structured extraction:
\* the records are those of the items before it.)
C29_ResultOrder ==
    \A c \in Calls :
        call[c].pc = "done" /\ call[c].outcome = "returned" =>
            /\ call[c].json_results # <<>> =>
                   /\ IsPrefix(call[c].json_results,
                               ItemRecords(FlatItems(call[c].page.json.sections),
                                           call[c].result_type))
                   /\ JsonWalk(call[c].page.json, call[c].result_type).exc = "None" =>
                          call[c].json_results =
                              ItemRecords(FlatItems(call[c].page.json.sections),
                                          call[c].result_type)
            /\ Has(call[c].log, "fallback") /\ call[c].result_type = "all" =>
                   call[c].html_results =
                       Group(call[c].page.html, "video")
                           \o Group(call[c].page.html, "channel")
                           \o Group(call[c].page.html, "playlist")
            /\ IsPrefix(call[c].returned, call[c].results)

\* A channel container before a video container: the video record is first.
C29_Witness ==
    /\ call["c1"].pc = "done"
    /\ call["c1"].outcome = "returned"
    /\ call["c1"].result_type = "all"
    /\ Len(call["c1"].page.html) = 2
    /\ call["c1"].page.html[1].kind = "channel"
    /\ call["c1"].page.html[2].kind = "video"
    /\ Len(call["c1"].html_results) = 2
    /\ call["c1"].html_results[1].kind = "video"
    /\ call["c1"].html_results[2].kind = "channel"
    /\ call["c1"].returned = call["c1"].html_results

Formatted == calc.pc = "done" /\ calc.fn = "format"

\* C30: for every formatter and every result list, the empty list
\* included, when an output file is given to format the text written to
\* the file is exactly the string that format returns, and when no file is
\* given nothing is written.
C30_WrittenIsReturned ==
    Formatted =>
        IF calc.arg.output_file
        THEN FileText(calc.res.writes) = calc.res.returned
        ELSE calc.res.writes = <<>>

====
